---- MODULE Spec2Model ----
(***************************************************************************)
(* A model of padmy: the migration ledger (migrate_up / migrate_down),     *)
(* the round-trip verifier (migrate_verify), the migration-file verifier   *)
(* (verify_migration_files) and the FK-aware sampler (create_temp_tables). *)
(* Each subsystem has its own specification over its own variables; the    *)
(* variables of the other subsystems stay at their idle values.            *)
(***************************************************************************)
EXTENDS Integers, Sequences, FiniteSets, TLC

VARIABLES
    \* ---- migration ledger (padmy/migration/migration.py)
    fileTs,      \* the folder: file_id -> timestamp of its up/down pair
    ledger,      \* public.migration: sequence of rows, in insertion order
    schema,      \* set of file_ids whose schema change is present in the database
    lastCall,    \* record of the last migrate_up / migrate_down / verify_migrations call
    tableExists, \* whether the table public.migration exists
    \* ---- sampling (padmy/sampling/sampling.py, padmy/db.py)
    fks,         \* foreign keys: records [child, parent, k], k numbering the
                 \* constraints of one child towards one parent
    ignored,     \* tables flagged ignore
    rowCount,    \* table -> count; the rows of a table are 1..count
    samplePct,   \* table -> sample_size (a percentage)
    fkVal,       \* fk -> (child row -> referenced parent row, 0 for NULL)
    pkCols,      \* table -> number of columns of its primary key (0: no primary key)
    processed,   \* tables with has_been_processed = True
    tmp,         \* table -> rows of its temporary table
    worklist,    \* _tables of create_temp_tables
    todo,        \* tables of _tables the for loop has not visited yet
    parentsAcc,  \* _parent_tables of the current pass
    spc,         \* position in sample_database: "start", "pass", "done" (create_temp_tables
                 \* ended), "end"
    sres,        \* how create_temp_tables, then sample_database, ended
    target,      \* table -> rows of the table in the target database
    \* ---- round-trip verification (migrate_verify)
    downKind,    \* file_id -> what its down file does: "exact", "none", "cascade"
    skipVerify,  \* file_id -> MigrationFile.skip_verify of the down file read by get_files
    downHeader,  \* file_id -> the header lines the text of the down file holds
    dbObjects,   \* schema objects of the database (what pg_dump --schema-only shows)
    vcall,       \* the running / last call: [onlyLast, skipRestore, start]
    vpc,         \* position in migrate_verify: "init", "loop", "restore", "done"
    vi,          \* index of the loop in progress
    vDownFiles,  \* _down_files
    vres,        \* how the call ended: [status, id, at]
    vLog,        \* files executed by the call: [op, id, phase]
    vChecks,     \* checks made by the call: [id, before]
    vPrev,       \* call and result of the call before
    \* ---- migration-file verification (verify_migration_files)
    mfolder,     \* the folder: migration -> [ts, id, sp, up, down]
    vmf,         \* last verify_migration_files call: [raise_error, outcome, kind, file_id, errors]
    fcall,       \* last call that rewrites the folder: [op, ids, now, status, modified, pre]
    \* ---- connections and child processes (padmy/utils.py, padmy/compare.py)
    environ,     \* os.environ: variable name -> value
    scopes,      \* open PGConnectionInfo.temp_env scopes, outermost first: [info, old]
    ccall        \* the last step of this part: [op, arg, result]

ledgerVars == <<fileTs, ledger, schema, lastCall, tableExists>>

graphVars == <<fks, ignored, rowCount, samplePct, fkVal, pkCols>>

sampleVars == <<fks, ignored, rowCount, samplePct, fkVal, pkCols,
                processed, tmp, worklist, todo, parentsAcc, spc, sres, target>>

verifyVars == <<downKind, skipVerify, downHeader, dbObjects, vcall, vpc, vi, vDownFiles,
                vres, vLog, vChecks, vPrev>>

filesVars == <<mfolder, vmf, fcall>>

connVars == <<environ, scopes, ccall>>

vars == <<fileTs, ledger, schema, lastCall, tableExists,
          fks, ignored, rowCount, samplePct, fkVal, pkCols,
          processed, tmp, worklist, todo, parentsAcc, spc, sres, target,
          downKind, skipVerify, downHeader, dbObjects, vcall, vpc, vi, vDownFiles,
          vres, vLog, vChecks, vPrev,
          mfolder, vmf, fcall,
          environ, scopes, ccall>>

(***************************************************************************)
(* Bounds                                                                  *)
(***************************************************************************)
NumMigrations == 3
MaxLedger == 5
NumTables == 4
MaxFKs == 4
RowsPerTable == 2
NumFilePairs == 4

\* longest list of file_ids given to a reorder operation
MaxReorderIds == 2

\* largest offset of the local time zone from UTC, in seconds of the model
MaxTzShift == 2

\* last second of the clock read by create_new_migration
MaxClock == 2

\* greatest number of PGConnectionInfo.temp_env scopes open at once
MaxScopes == 2

\* greatest number of lines of a message given to extract_pg_error
MaxLines == 4

(***************************************************************************)
(* Generic helpers                                                         *)
(***************************************************************************)
Range(s) == {s[i] : i \in 1..Len(s)}

Take(s, n) == SubSeq(s, 1, IF n < Len(s) THEN n ELSE Len(s))

Reverse(s) == [i \in 1..Len(s) |-> s[Len(s) + 1 - i]]

Max(S) == CHOOSE x \in S : \A y \in S : y <= x

Min(S) == CHOOSE x \in S : \A y \in S : x <= y

(***************************************************************************)
(* The migration folder: one up/down pair per file_id, both files of a     *)
(* pair carrying the same timestamp.                                       *)
(***************************************************************************)
FileIds == 1..NumMigrations

\* MigrationFile.path.name: "{ts}-{file_id}-{file_type}.sql"
FileName(ts, f, kind) == <<ts[f], f, kind>>

\* sorted(files, key=attrgetter("ts", "file_id"))
FileLess(ts, f, g) == ts[f] < ts[g] \/ (ts[f] = ts[g] /\ f < g)

RECURSIVE SortIds(_, _)
SortIds(ts, S) ==
    IF S = {} THEN <<>>
    ELSE LET m == CHOOSE x \in S : \A y \in S \ {x} : FileLess(ts, x, y)
         IN  <<m>> \o SortIds(ts, S \ {m})

\* get_files(folder) then iter_migration_files: the pairs in ascending order
GetFiles(ts) == SortIds(ts, FileIds)

\* The folders explored: distinct timestamps in file_id order, distinct
\* timestamps against file_id order, and timestamps shared by two pairs.
Folders ==
    { [f \in FileIds |-> f],
      [f \in FileIds |-> NumMigrations + 1 - f],
      [f \in FileIds |-> (f \div 2) + 1] }

(***************************************************************************)
(* Ledger rows and queries                                                 *)
(***************************************************************************)
NoRow == [migration_type |-> "none", file_id |-> 0, file_ts |-> 0,
          file_name |-> <<0, 0, "none">>, applied_at |-> 0, meta |-> "null"]

LedgerRow(ts, kind, f, at) ==
    [migration_type |-> kind, file_id |-> f, file_ts |-> ts[f],
     file_name |-> FileName(ts, f, kind), applied_at |-> at, meta |-> "null"]

\* applied_at defaults to now(): later than every row already in the ledger
Now(led) == IF led = <<>> THEN 1 ELSE Max({led[i].applied_at : i \in 1..Len(led)}) + 1

\* the join of _GET_LATEST_MIGRATION_QUERY: 'up' rows whose file_id has no 'down' row
HasDownRow(led, f) ==
    \E j \in 1..Len(led) : led[j].migration_type = "down" /\ led[j].file_id = f

UpRowsWithoutDown(led) ==
    {led[i] : i \in {k \in 1..Len(led) :
                      led[k].migration_type = "up" /\ ~HasDownRow(led, led[k].file_id)}}

\* order by applied_at desc, file_ts desc limit 1: any row the ordering leaves first
GetLatestMigration(led) ==
    LET cand == UpRowsWithoutDown(led)
        Before(r, s) == r.applied_at > s.applied_at
                        \/ (r.applied_at = s.applied_at /\ r.file_ts > s.file_ts)
    IN  IF cand = {} THEN {NoRow}
        ELSE {r \in cand : \A s \in cand : ~Before(s, r)}

\* a get_migration_files that never cuts the list
GetMigrationFiles_NoCut(ts, latest, nb) ==
    LET Pending(f) == latest = NoRow
                      \/ (ts[f] >= latest.file_ts
                          /\ FileName(ts, f, "up") # latest.file_name)
    IN  SelectSeq(GetFiles(ts), Pending)

\* get_migration_files, given the row _get_latest_migration returned
GetMigrationFiles(ts, latest, nb) ==
    LET Pending(f) == latest = NoRow
                      \/ (ts[f] >= latest.file_ts
                          /\ FileName(ts, f, "up") # latest.file_name)
        toApply == SelectSeq(GetFiles(ts), Pending)
    IN  IF nb > 0 THEN Take(toApply, nb) ELSE toApply

\* get_applied_migrations + the set comprehension of get_rollback_files
AppliedMigrationIds(led) ==
    {led[i].file_id : i \in {k \in 1..Len(led) :
        led[k].migration_type = "up" /\ ~HasDownRow(led, led[k].file_id)}}

\* rollback candidates left in get_files order, oldest first
RollbackCandidates_OldestFirst(ts, led) ==
    LET InApplied(f) == f \in AppliedMigrationIds(led)
    IN  SelectSeq(GetFiles(ts), InApplied)

RollbackCandidates(ts, led) ==
    LET InApplied(f) == f \in AppliedMigrationIds(led)
    IN  Reverse(SelectSeq(GetFiles(ts), InApplied))

\* get_rollback_files; mid = 0 stands for migration_id = None.
\* The result is a record [error, files].
GetRollbackFiles(ts, led, nb, mid) ==
    LET all == RollbackCandidates(ts, led)
    IN  IF mid # 0 /\ nb >= 0 THEN [error |-> "ValueError", files |-> <<>>]
        ELSE IF mid # 0 THEN
            IF \E i \in 1..Len(all) : all[i] = mid
            THEN [error |-> "none",
                  files |-> Take(all, CHOOSE i \in 1..Len(all) : all[i] = mid)]
            ELSE [error |-> "ValueError", files |-> <<>>]
        ELSE IF nb > 0 THEN [error |-> "none", files |-> Take(all, nb)]
        ELSE [error |-> "none", files |-> all]

(***************************************************************************)
(* Executing a batch of files                                              *)
(***************************************************************************)
\* exec_file: the whole script runs as one implicit transaction
ExecFile(sch, kind, f) == IF kind = "up" THEN sch \cup {f} ELSE sch \ {f}

\* apply_migration / the loop body of migrate_down: execute, then insert the row.
\* st = [ledger, schema, executed, failed]; at is the applied_at of the new row.
ApplyMigration(ts, st, kind, f, fails, at) ==
    IF fails
    THEN [st EXCEPT !.failed = TRUE]
    ELSE [ledger   |-> Append(st.ledger, LedgerRow(ts, kind, f, at)),
          schema   |-> ExecFile(st.schema, kind, f),
          executed |-> Append(st.executed, f),
          failed   |-> FALSE]

\* the for loop over the batch; failAt = 0 means no file fails
RECURSIVE RunFiles(_, _, _, _, _, _, _, _)
RunFiles(ts, st, kind, files, i, failAt, useTx, at0) ==
    IF i > Len(files) \/ st.failed THEN st
    ELSE RunFiles(ts,
                  ApplyMigration(ts, st, kind, files[i], i = failAt,
                                 IF useTx THEN at0 ELSE at0 + i - 1),
                  kind, files, i + 1, failAt, useTx, at0)

\* a batch that keeps the work done before the failing file
RunBatch_NoRollback(ts, led, sch, kind, files, failAt, useTx) ==
    RunFiles(ts, [ledger |-> led, schema |-> sch, executed |-> <<>>, failed |-> FALSE],
             kind, files, 1, failAt, useTx, Now(led))

\* async with _transaction(): a failure inside conn.transaction rolls back
RunBatch(ts, led, sch, kind, files, failAt, useTx) ==
    LET st0 == [ledger |-> led, schema |-> sch, executed |-> <<>>, failed |-> FALSE]
        st  == RunFiles(ts, st0, kind, files, 1, failAt, useTx, Now(led))
    IN  IF st.failed /\ useTx
        THEN [st EXCEPT !.ledger = led, !.schema = sch]
        ELSE st

CallRecord(op, useTx, files, res, executed, led, sch) ==
    [op |-> op, useTx |-> useTx, selected |-> files, result |-> res,
     executed |-> executed, preLedger |-> led, preSchema |-> sch]

\* nb_migrations: -1 (all), 0, or a count
NbChoices == {-1, 0} \cup (1..NumMigrations)

\* nb_migrations or -1
NbOrAll(nb) == IF nb = 0 THEN -1 ELSE nb

\* migrate_setup: db.sql creates public.migration
MigrateSetup ==
    /\ tableExists' = TRUE
    /\ lastCall' = CallRecord("setup", TRUE, <<>>, "returned", <<>>, ledger, schema)
    /\ UNCHANGED <<fileTs, ledger, schema, sampleVars, connVars, verifyVars, filesVars>>

\* migrate_up(conn, folder, nb_migrations, use_transaction)
MigrateUp(nb, useTx) ==
    \/ /\ ~tableExists
       /\ lastCall' = CallRecord("up", useTx, <<>>, "NoSetupTableError", <<>>, ledger, schema)
       /\ UNCHANGED <<fileTs, ledger, schema, tableExists, sampleVars, connVars, verifyVars, filesVars>>
    \/ /\ tableExists
       /\ \E latest \in GetLatestMigration(ledger) :
            LET files == GetMigrationFiles(fileTs, latest, nb) IN
            \E failAt \in 0..Len(files) :
              LET st == RunBatch(fileTs, ledger, schema, "up", files, failAt, useTx)
              IN  /\ Len(ledger) + Len(files) <= MaxLedger
                  /\ IF files = <<>>
                     THEN /\ lastCall' = CallRecord("up", useTx, files, "False", <<>>,
                                                    ledger, schema)
                          /\ UNCHANGED <<ledger, schema>>
                     ELSE /\ ledger' = st.ledger
                          /\ schema' = st.schema
                          /\ lastCall' = CallRecord("up", useTx, files,
                                                    IF st.failed THEN "error" ELSE "True",
                                                    st.executed, ledger, schema)
       /\ UNCHANGED <<fileTs, tableExists, sampleVars, connVars, verifyVars, filesVars>>

\* migrate_down(conn, folder, nb_migrations, use_transaction, migration_id)
MigrateDown(nb, mid, useTx) ==
    LET sel   == GetRollbackFiles(fileTs, ledger, NbOrAll(nb), mid)
        files == sel.files
        raised(err) == /\ lastCall' = CallRecord("down", useTx, <<>>, err, <<>>, ledger, schema)
                       /\ UNCHANGED <<ledger, schema>>
    IN
    /\ IF mid # 0 /\ NbOrAll(nb) >= 0 THEN raised("ValueError")
       ELSE IF ~tableExists THEN raised("NoSetupTableError")
       ELSE IF sel.error # "none" THEN raised(sel.error)
       ELSE \E failAt \in 0..Len(files) :
              LET st == RunBatch(fileTs, ledger, schema, "down", files, failAt, useTx)
              IN  /\ Len(ledger) + Len(files) <= MaxLedger
                  /\ IF files = <<>>
                     THEN /\ lastCall' = CallRecord("down", useTx, files, "False", <<>>,
                                                    ledger, schema)
                          /\ UNCHANGED <<ledger, schema>>
                     ELSE /\ ledger' = st.ledger
                          /\ schema' = st.schema
                          /\ lastCall' = CallRecord("down", useTx, files,
                                                    IF st.failed THEN "error" ELSE "True",
                                                    st.executed, ledger, schema)
    /\ UNCHANGED <<fileTs, tableExists, sampleVars, connVars, verifyVars, filesVars>>

\* a get_missing_migrations that also asks for the absence of a 'down' row
GetMissingMigrations_NotApplied(ts, led) ==
    LET Missing(f) == f \notin AppliedMigrationIds(led)
    IN  SelectSeq(GetFiles(ts), Missing)

\* get_missing_migrations: the up files whose file_id has no 'up' row
GetMissingMigrations(ts, led) ==
    LET Missing(f) == ~\E i \in 1..Len(led) :
                          led[i].migration_type = "up" /\ led[i].file_id = f
    IN  SelectSeq(GetFiles(ts), Missing)

\* verify_migrations(conn, folder, metadata): metadata is None ("null") or a
\* dict of the caller; the files are applied one by one outside a transaction
VerifyMigrations(metadata) ==
    LET files == GetMissingMigrations(fileTs, ledger)
        meta == IF metadata = "null" THEN "missing" ELSE metadata
    IN
    /\ IF ~tableExists
       THEN /\ lastCall' = CallRecord("verify", FALSE, <<>>, "UndefinedTableError", <<>>,
                                      ledger, schema)
            /\ UNCHANGED <<ledger, schema>>
       ELSE \E failAt \in 0..Len(files) :
              LET st == RunBatch(fileTs, ledger, schema, "up", files, failAt, FALSE)
              IN  /\ Len(ledger) + Len(files) <= MaxLedger
                  /\ ledger' = [i \in 1..Len(st.ledger) |->
                                   IF i <= Len(ledger) THEN st.ledger[i]
                                   ELSE [st.ledger[i] EXCEPT !.meta = meta]]
                  /\ schema' = st.schema
                  /\ lastCall' = CallRecord("verify", FALSE, files,
                                            IF st.failed THEN "error" ELSE "returned",
                                            st.executed, ledger, schema)
    /\ UNCHANGED <<fileTs, tableExists, sampleVars, connVars, verifyVars, filesVars>>

LedgerIdle ==
    /\ fileTs = [f \in FileIds |-> f]
    /\ ledger = <<>>
    /\ schema = {}
    /\ lastCall = CallRecord("none", TRUE, <<>>, "none", <<>>, <<>>, {})
    /\ tableExists = TRUE

(***************************************************************************)
(* Sampling: the schema graph (padmy/db.py)                                *)
(***************************************************************************)
Tables == 1..NumTables

FK(c, p, k) == [child |-> c, parent |-> p, k |-> k]

\* Table.parent_tables / child_tables as Database.explore fills them
ParentTables(F, t) == {fk.parent : fk \in {x \in F : x.child = t}}

ChildTables(F, t) == {fk.child : fk \in {x \in F : x.parent = t}}

\* Table.parent_tables_safe / child_tables_safe
ParentTablesSafe(F, ign, t) == {x \in ParentTables(F, t) : x # t /\ x \notin ign}

ChildTablesSafe(F, ign, t) == {x \in ChildTables(F, t) : x # t /\ x \notin ign}

\* Table.is_root / is_leaf
IsRoot(F, ign, t) == ParentTablesSafe(F, ign, t) = {}

IsLeaf(F, ign, t) == ChildTablesSafe(F, ign, t) = {} /\ ParentTablesSafe(F, ign, t) # {}

\* Table.children_has_been_processed
ChildrenHasBeenProcessed(F, ign, done, t) == ChildTablesSafe(F, ign, t) \subseteq done

\* floor(table.count * table.sample_size / 100)
TableSize(t) == (rowCount[t] * samplePct[t]) \div 100

Rows(t) == 1..rowCount[t]

SubsetsOfSize(S, n) ==
    LET k == IF n < Cardinality(S) THEN n ELSE Cardinality(S)
    IN  {X \in SUBSET S : Cardinality(X) = k}

(***************************************************************************)
(* Sampling: building the temporary tables                                 *)
(***************************************************************************)
\* _insert_leaf_table: SELECT * FROM t TABLESAMPLE SYSTEM_ROWS(table_size)
InsertLeafTable(t) == SubsetsOfSize(Rows(t), TableSize(t))

\* get_insert_child_fk_data_query: one inner join with the child's temporary
\* table per foreign key of the child that references the table
ChildFkData(t, c, tmpc) ==
    {p \in Rows(t) :
        \A fk \in {x \in fks : x.child = c /\ x.parent = t} :
            \E r \in tmpc : fkVal[fk][r] = p}

\* what building a temporary table can give: an error, or its rows
Built(rows) == [error |-> "none", rows |-> rows]

Failed(error) == [error |-> error, rows |-> {}]

\* get_insert_data_query executed with LIMIT limit on a temporary table that
\* holds present. One primary-key column: rows not present yet. No primary
\* key: no WHERE clause, any rows of the table, and a row already present
\* violates the unique index the temporary table copies from the table
\* (LIKE ... INCLUDING ALL; a referenced table has one). Two columns or
\* more: "and ".join writes "t2.a = t1.aand t2.b = t1.b", which PostgreSQL
\* rejects.
InsertData(t, present, limit) ==
    IF pkCols[t] >= 2 THEN {Failed("PostgresSyntaxError")}
    ELSE IF pkCols[t] = 1
    THEN {Built(present \cup X) : X \in SubsetsOfSize(Rows(t) \ present, limit)}
    ELSE {IF X \cap present = {} THEN Built(present \cup X) ELSE Failed("UniqueViolationError") :
             X \in SubsetsOfSize(Rows(t), limit)}

\* _insert_node_table: the rows the children's joins insert, then the top-up
\* of get_insert_data_query with LIMIT table_size - count
InsertNodeTable(t, tmps) ==
    LET fromChildren == UNION {ChildFkData(t, c, tmps[c]) : c \in ChildTablesSafe(fks, ignored, t)}
        count == Cardinality(fromChildren)
    IN  IF count < TableSize(t)
        THEN InsertData(t, fromChildren, TableSize(t) - count)
        ELSE {Built(fromChildren)}

\* a process_table that builds a non-leaf table without waiting for its children
ProcessTable_NoWait(t) ==
    {[built |-> b.error = "none", error |-> b.error, rows |-> b.rows,
      next |-> ParentTablesSafe(fks, ignored, t) \ (processed \cup {t})] :
         b \in IF IsLeaf(fks, ignored, t) THEN {Built(X) : X \in InsertLeafTable(t)}
               ELSE InsertNodeTable(t, tmp)}

\* process_table on a table that is not processed yet: the possible outcomes,
\* as records [built, error, rows, next]
ProcessTable(t) ==
    IF IsLeaf(fks, ignored, t)
    THEN {[built |-> TRUE, error |-> "none", rows |-> X,
           next |-> ParentTablesSafe(fks, ignored, t) \ (processed \cup {t})] :
              X \in InsertLeafTable(t)}
    ELSE IF ChildrenHasBeenProcessed(fks, ignored, processed, t)
    THEN {[built |-> b.error = "none", error |-> b.error, rows |-> b.rows,
           next |-> ParentTablesSafe(fks, ignored, t) \ (processed \cup {t})] :
              b \in InsertNodeTable(t, tmp)}
    ELSE {[built |-> FALSE, error |-> "none", rows |-> {},
           next |-> ChildTablesSafe(fks, ignored, t) \ processed]}

\* create_temp_tables: the initial worklist
StartTables(startFrom) ==
    {t \in Tables : t \notin ignored
                    /\ (IF startFrom = "node" THEN IsRoot(fks, ignored, t)
                        ELSE IsLeaf(fks, ignored, t))}

CreateTempTablesStart(startFrom) ==
    /\ spc = "start"
    /\ LET first == StartTables(startFrom)
       IN  IF first = {}
           THEN /\ spc' = "done"
                /\ sres' = "NoNodeTable"
                /\ UNCHANGED <<worklist, todo>>
           ELSE /\ spc' = "pass"
                /\ worklist' = first
                /\ todo' = first
                /\ UNCHANGED sres
    /\ UNCHANGED <<graphVars, processed, tmp, parentsAcc, target, ledgerVars, connVars, verifyVars,
                   filesVars>>

\* one iteration of "for table in _tables", in any order of the set
CreateTempTablesVisit(t) ==
    /\ spc = "pass"
    /\ t \in todo
    /\ todo' = todo \ {t}
    /\ IF t \in processed
       THEN UNCHANGED <<processed, tmp, parentsAcc, spc, sres>>
       ELSE \E out \in ProcessTable(t) :
               IF out.error # "none"
               THEN /\ spc' = "done"
                    /\ sres' = out.error
                    /\ UNCHANGED <<processed, tmp, parentsAcc>>
               ELSE /\ parentsAcc' = parentsAcc \cup out.next
                    /\ IF out.built
                       THEN /\ processed' = processed \cup {t}
                            /\ tmp' = [tmp EXCEPT ![t] = out.rows]
                       ELSE UNCHANGED <<processed, tmp>>
                    /\ UNCHANGED <<spc, sres>>
    /\ UNCHANGED <<graphVars, worklist, target, ledgerVars, connVars, verifyVars, filesVars>>

\* the end of a pass: the no-progress test, then the next worklist
CreateTempTablesEndPass ==
    /\ spc = "pass"
    /\ todo = {}
    /\ IF worklist = parentsAcc
       THEN /\ spc' = "done"
            /\ sres' = "CyclicFK"
            /\ UNCHANGED <<worklist, todo, parentsAcc>>
       ELSE /\ worklist' = parentsAcc
            /\ todo' = parentsAcc
            /\ parentsAcc' = {}
            /\ IF parentsAcc = {}
               THEN spc' = "done" /\ sres' = "ok"
               ELSE UNCHANGED <<spc, sres>>
    /\ UNCHANGED <<graphVars, processed, tmp, target, ledgerVars, connVars, verifyVars, filesVars>>

\* sample_database once create_temp_tables has ended: an error leaves the
\* function; the safety check looks at every table of db.tables; then the
\* rows of every temporary table are inserted into the target
SampleDatabaseTransfer ==
    /\ spc = "done"
    /\ spc' = "end"
    /\ IF sres # "ok"
       THEN UNCHANGED <<sres, target>>
       ELSE IF Tables \ processed # {}
       THEN sres' = "NotImplementedError" /\ UNCHANGED target
       ELSE sres' = "ok" /\ target' = [t \in Tables |-> tmp[t]]
    /\ UNCHANGED <<graphVars, processed, tmp, worklist, todo, parentsAcc, ledgerVars, connVars,
                   verifyVars, filesVars>>

(***************************************************************************)
(* Sampling: the databases explored                                        *)
(***************************************************************************)
\* the tables that have or receive foreign keys in the graphs below; the last
\* table has none
LinkedTables == 1..(NumTables - 1)

\* every foreign-key graph with at most MaxFKs constraints, one constraint per
\* ordered pair of linked tables, a self-reference allowed on table 1
GraphPairs ==
    {FK(c, p, 1) : c \in LinkedTables, p \in LinkedTables} \ {FK(t, t, 1) : t \in Tables \ {1}}

\* the acyclic graphs over all the tables, up to the names of the tables: the
\* child has the greater number
DagGraphs == SUBSET {fk \in {FK(c, p, 1) : c \in Tables, p \in Tables} : fk.child > fk.parent}

Graphs == {F \in SUBSET GraphPairs : Cardinality(F) <= MaxFKs}

\* child rows being interchangeable, the references of a constraint are
\* listed in non-decreasing order
SortedRefs == {f \in [1..RowsPerTable -> 0..RowsPerTable] :
                  \A i \in 1..(RowsPerTable - 1) : f[i] <= f[i + 1]}

AllRefs == [1..RowsPerTable -> 0..RowsPerTable]

\* schemas with data: one constraint 2->1; two constraints 2->1; a chain 3->2->1
SingleFK == {FK(2, 1, 1)}
DoubleFK == {FK(2, 1, 1), FK(2, 1, 2)}
ChainFK  == {FK(2, 1, 1), FK(3, 2, 1)}

Percents == { [t \in Tables |-> 100], [t \in Tables |-> 0], [t \in Tables |-> 50],
              [t \in Tables |-> IF t = 1 THEN 0 ELSE 100] }

SampleRunInit ==
    /\ target = [t \in Tables |-> {}]
    /\ processed = {}
    /\ tmp = [t \in Tables |-> {}]
    /\ worklist = {}
    /\ todo = {}
    /\ parentsAcc = {}
    /\ spc = "start"
    /\ sres = "running"

SampleGraphInit ==
    /\ fks \in Graphs
    /\ ignored \in {X \in SUBSET Tables : Cardinality(X) <= 1}
    /\ rowCount = [t \in Tables |-> 0]
    /\ samplePct = [t \in Tables |-> 100]
    /\ fkVal = [fk \in fks |-> <<>>]
    /\ pkCols = [t \in Tables |-> 1]

SampleDataInit ==
    /\ ignored = {}
    /\ pkCols = [t \in Tables |-> 1]
    /\ rowCount = [t \in Tables |-> RowsPerTable]
    /\ samplePct \in Percents
    /\ \/ fks = SingleFK /\ fkVal \in [SingleFK -> SortedRefs]
       \/ /\ fks = DoubleFK
          /\ \E a \in SortedRefs, b \in AllRefs :
                fkVal = [fk \in DoubleFK |-> IF fk.k = 1 THEN a ELSE b]
       \/ fks = ChainFK /\ fkVal \in [ChainFK -> SortedRefs]

SampleIdle ==
    /\ fks = {}
    /\ ignored = {}
    /\ rowCount = [t \in Tables |-> 0]
    /\ samplePct = [t \in Tables |-> 100]
    /\ fkVal = <<>>
    /\ pkCols = [t \in Tables |-> 1]
    /\ target = [t \in Tables |-> {}]
    /\ processed = {}
    /\ tmp = [t \in Tables |-> {}]
    /\ worklist = {}
    /\ todo = {}
    /\ parentsAcc = {}
    /\ spc = "idle"
    /\ sres = "idle"

(***************************************************************************)
(* Round-trip verification: the files and the database                     *)
(***************************************************************************)
\* the object every database starts with; the up file of migration i creates
\* object i
BaseObject == 0

DownKinds == {"exact", "none", "cascade"}

\* exec_psql_file on an up file: psql reports ERROR when the object exists
ExecUp(i, db) ==
    IF i \in db THEN [ok |-> FALSE, db |-> db] ELSE [ok |-> TRUE, db |-> db \cup {i}]

\* exec_psql_file on a down file: "exact" drops object i, "cascade" drops it
\* together with object i - 1 when present, "none" drops nothing; psql
\* reports ERROR when object i is to be dropped and does not exist
ExecDown(kinds, i, db) ==
    IF kinds[i] = "none" THEN [ok |-> TRUE, db |-> db]
    ELSE IF i \notin db THEN [ok |-> FALSE, db |-> db]
    ELSE IF kinds[i] = "exact" THEN [ok |-> TRUE, db |-> db \ {i}]
    ELSE [ok |-> TRUE, db |-> db \ {i, i - 1}]

\* PREFIXES: the header lines a migration file can hold; the text of a file
\* is modelled by the set of these lines it holds with a value
HeaderFields == {"prev-file", "author", "version", "skip-verify"}

\* Header.from_text
HeaderFromText(text) ==
    [prev_file |-> "prev-file" \in text, author |-> "author" \in text,
     version |-> "version" \in text, skip_verify |-> "skip-verify" \in text]

\* Header.is_empty
IsEmpty(header) == ~(header.prev_file \/ header.author \/ header.version)

\* MigrationFile.skip_verify of the file MigrationFile.from_file builds: the
\* header is None when Header.is_empty
SkipVerifyOfFile(text) ==
    LET header == HeaderFromText(text)
    IN  IF IsEmpty(header) THEN FALSE ELSE header.skip_verify

\* a _skip that ignores the only_last argument
Skip_AllButLast(skipFlag, onlyLast, idx, nbMigrations, nbFiles) ==
    skipFlag \/ (idx # nbMigrations /\ nbFiles # 2)

\* _skip of migrate_verify; idx counts from 1
Skip(skipFlag, onlyLast, idx, nbMigrations, nbFiles) ==
    skipFlag \/ (onlyLast /\ idx # nbMigrations /\ nbFiles # 2)

LogEntry(op, i, phase) == [op |-> op, id |-> i, phase |-> phase]

VerifyResult(status, i, at) == [status |-> status, id |-> i, at |-> at]

\* _verify_migration: dump, up, down, dump, compare
VerifyMigration(kinds, i, db) ==
    LET up == ExecUp(i, db)
        down == ExecDown(kinds, i, up.db)
    IN  IF ~up.ok
        THEN [status |-> "PGError", db |-> db, log |-> <<>>]
        ELSE IF ~down.ok
        THEN [status |-> "PGError", db |-> up.db, log |-> <<LogEntry("up", i, "check")>>]
        ELSE [status |-> IF down.db = db THEN "ok" ELSE "MigrationError",
              db |-> down.db,
              log |-> <<LogEntry("up", i, "check"), LogEntry("down", i, "check")>>]

\* one iteration of the loop of migrate_verify
VerifyIteration(kinds, i, skip, db) ==
    LET chk == IF skip THEN [status |-> "ok", db |-> db, log |-> <<>>]
               ELSE VerifyMigration(kinds, i, db)
        up  == ExecUp(i, chk.db)
    IN  IF chk.status # "ok" THEN chk
        ELSE IF ~up.ok THEN [status |-> "PGError", db |-> chk.db, log |-> chk.log]
        ELSE [status |-> "ok", db |-> up.db,
              log |-> chk.log \o <<LogEntry("up", i, "apply")>>]

\* a restore that runs the down files in the order they were collected
RestoreOrder_Forward(downFiles) == downFiles

\* reversed(_down_files)
RestoreOrder(downFiles) == Reverse(downFiles)

NoCall == [onlyLast |-> FALSE, skipRestore |-> FALSE, start |-> {}]

(***************************************************************************)
(* Round-trip verification: migrate_verify                                 *)
(***************************************************************************)
MigrateVerifyStart(onlyLast, skipRestore) ==
    /\ vpc \in {"init", "done"}
    /\ vPrev' = [call |-> vcall, res |-> vres]
    /\ vcall' = [onlyLast |-> onlyLast,
                 skipRestore |-> skipRestore, start |-> dbObjects]
    /\ vpc' = "loop"
    /\ vi' = 1
    /\ vDownFiles' = <<>>
    /\ vres' = VerifyResult("running", 0, "none")
    /\ vLog' = <<>>
    /\ vChecks' = <<>>
    /\ skipVerify' = [f \in FileIds |-> SkipVerifyOfFile(downHeader[f])]
    /\ UNCHANGED <<downKind, downHeader, dbObjects, ledgerVars, sampleVars, connVars, filesVars>>

MigrateVerifyPair ==
    /\ vpc = "loop"
    /\ LET files == GetFiles(fileTs)
           nb    == Len(files)
           i     == files[vi]
           skip  == Skip(skipVerify[i], vcall.onlyLast, vi, nb, 2 * nb)
           it    == VerifyIteration(downKind, i, skip, dbObjects)
       IN  /\ dbObjects' = it.db
           /\ vLog' = vLog \o it.log
           /\ vChecks' = IF skip THEN vChecks
                         ELSE Append(vChecks, [id |-> i, before |-> dbObjects])
           /\ IF it.status # "ok"
              THEN /\ vpc' = "done"
                   /\ vres' = VerifyResult(it.status, i, "loop")
                   /\ UNCHANGED <<vi, vDownFiles>>
              ELSE /\ vDownFiles' = Append(vDownFiles, i)
                   /\ IF vi < nb
                      THEN /\ vi' = vi + 1
                           /\ UNCHANGED <<vpc, vres>>
                      ELSE /\ vi' = 1
                           /\ IF vcall.skipRestore
                              THEN /\ vpc' = "done"
                                   /\ vres' = VerifyResult("ok", 0, "none")
                              ELSE /\ vpc' = "restore"
                                   /\ UNCHANGED vres
    /\ UNCHANGED <<downKind, skipVerify, downHeader, vcall, vPrev, ledgerVars, sampleVars, connVars,
                   filesVars>>

\* one iteration of the loop that restores the initial state
MigrateVerifyRestore ==
    /\ vpc = "restore"
    /\ LET i    == RestoreOrder(vDownFiles)[vi]
           down == ExecDown(downKind, i, dbObjects)
       IN  IF ~down.ok
           THEN /\ vpc' = "done"
                /\ vres' = VerifyResult("PGError", i, "restore")
                /\ UNCHANGED <<dbObjects, vLog, vi>>
           ELSE /\ dbObjects' = down.db
                /\ vLog' = Append(vLog, LogEntry("down", i, "restore"))
                /\ IF vi < Len(vDownFiles)
                   THEN /\ vi' = vi + 1
                        /\ UNCHANGED <<vpc, vres>>
                   ELSE /\ vi' = 1
                        /\ vpc' = "done"
                        /\ vres' = VerifyResult("ok", 0, "none")
    /\ UNCHANGED <<downKind, skipVerify, downHeader, vcall, vDownFiles, vChecks, vPrev,
                   ledgerVars, sampleVars, connVars, filesVars>>

VerifyIdle ==
    /\ downKind = [f \in FileIds |-> "exact"]
    /\ skipVerify = [f \in FileIds |-> FALSE]
    /\ downHeader = [f \in FileIds |-> {}]
    /\ dbObjects = {BaseObject}
    /\ vcall = NoCall
    /\ vpc = "idle"
    /\ vi = 1
    /\ vDownFiles = <<>>
    /\ vres = VerifyResult("none", 0, "none")
    /\ vLog = <<>>
    /\ vChecks = <<>>
    /\ vPrev = [call |-> NoCall, res |-> VerifyResult("none", 0, "none")]

(***************************************************************************)
(* Migration files: the folder verify_migration_files reads                *)
(***************************************************************************)
Migs == 1..NumFilePairs

\* header None (Header.is_empty)
NoHeader == <<>>

\* a header whose Prev-file is empty
EmptyPrev == <<0, 0, "none", 0>>

\* MigrationFile.path.name: "{ts}-{file_id}-{kind}.sql"; sp tells apart two
\* spellings of one timestamp
PathName(m, kind) == <<m.ts, m.id, kind, m.sp>>

\* timestamps of the migrations: ascending, descending, shared by neighbours
TsPatterns ==
    { [k \in Migs |-> k],
      [k \in Migs |-> NumFilePairs + 1 - k],
      [k \in Migs |-> (k \div 2) + 1] }

\* file_ids: all different, or migration b carrying the file_id of migration a
IdPatterns ==
    { [k \in Migs |-> k] } \cup
    { [k \in Migs |-> IF k = b THEN a ELSE k] : a \in Migs, b \in Migs }

\* the headers of a migration name the files of a neighbour, or are absent
HeaderStyles == {"none", "before", "after", "mixed"}

HeaderOf(ts, id, sp, k, kind, towards) ==
    LET j == IF towards = "before" THEN k - 1 ELSE k + 1
    IN  IF j \in Migs
        THEN PathName([ts |-> ts[j], id |-> id[j], sp |-> sp[j]], kind)
        ELSE EmptyPrev

MakeFolder(ts, id, style) ==
    LET sp == [k \in Migs |->
                  Cardinality({j \in 1..(k - 1) : ts[j] = ts[k] /\ id[j] = id[k]})]
    IN  [k \in Migs |->
            [ts |-> ts[k], id |-> id[k], sp |-> sp[k],
             up |-> IF style[k] = "none" THEN NoHeader
                    ELSE IF style[k] = "after" THEN HeaderOf(ts, id, sp, k, "up", "after")
                    ELSE HeaderOf(ts, id, sp, k, "up", "before"),
             down |-> IF style[k] = "none" THEN NoHeader
                      ELSE IF style[k] = "before" THEN HeaderOf(ts, id, sp, k, "down", "before")
                      ELSE HeaderOf(ts, id, sp, k, "down", "after")]]

MigrationFolders ==
    {MakeFolder(ts, id, style) : ts \in TsPatterns, id \in IdPatterns,
                                 style \in [Migs -> HeaderStyles]}

\* sorted(files, key=attrgetter("ts", "file_id"))
KeyLess(F, a, b) == F[a].ts < F[b].ts \/ (F[a].ts = F[b].ts /\ F[a].id < F[b].id)

\* get_files: the migrations in ascending (ts, file_id) order; migrations
\* with equal keys end up in one group whatever their relative order
RECURSIVE SortMigs(_, _)
SortMigs(F, S) ==
    IF S = {} THEN <<>>
    ELSE LET m == CHOOSE x \in S : \A y \in S \ {x} : KeyLess(F, x, y) \/ (~KeyLess(F, y, x) /\ x < y)
         IN  <<m>> \o SortMigs(F, S \ {m})

\* groupby(files, file_id): neighbours with the same file_id form one group
RECURSIVE GroupBy(_, _, _)
GroupBy(F, sorted, groups) ==
    IF sorted = <<>> THEN groups
    ELSE LET m == Head(sorted)
             n == Len(groups)
         IN  IF n > 0 /\ F[groups[n][1]].id = F[m].id
             THEN GroupBy(F, Tail(sorted), [groups EXCEPT ![n] = Append(@, m)])
             ELSE GroupBy(F, Tail(sorted), Append(groups, <<m>>))

\* the groups of the files in the order the folder lists them, not sorted
IterMigrationFiles_Unsorted(F) == GroupBy(F, [k \in DOMAIN F |-> k], <<>>)

\* iter_migration_files: a group with more than one up (down) file raises
IterMigrationFiles(F) == GroupBy(F, SortMigs(F, DOMAIN F), <<>>)

(***************************************************************************)
(* Migration files: verify_migration_files                                 *)
(***************************************************************************)
FileError(kind, id) == [kind |-> kind, file_id |-> id]

NoFileError == FileError("none", 0)

VmfResult(raiseError, outcome, err, errors) ==
    [raise_error |-> raiseError, outcome |-> outcome, kind |-> err.kind,
     file_id |-> err.file_id, errors |-> errors]

\* a check of the pair that looks at the up header only
CheckPair_UpOnly(prev, cur) ==
    IF prev.ts > cur.ts THEN FileError("order", cur.id)
    ELSE IF cur.up # NoHeader /\ cur.up # PathName(prev, "up") THEN FileError("header", cur.id)
    ELSE NoFileError

\* the body of the try block: order of the up and down files, then the
\* prev_file of the up header and of the down header
CheckPair(prev, cur) ==
    IF prev.ts > cur.ts THEN FileError("order", cur.id)
    ELSE IF cur.up # NoHeader /\ cur.up # PathName(prev, "up") THEN FileError("header", cur.id)
    ELSE IF cur.down # NoHeader /\ cur.down # PathName(prev, "down") THEN FileError("header", cur.id)
    ELSE NoFileError

\* the loop of verify_migration_files from group g on; prev = 0 for None
RECURSIVE VerifyLoop(_, _, _, _, _, _, _)
VerifyLoop(F, groups, g, prev, ids, errors, raiseError) ==
    IF g > Len(groups) THEN VmfResult(raiseError, "returned", NoFileError, errors)
    ELSE IF Len(groups[g]) # 1 THEN VmfResult(raiseError, "ValueError", NoFileError, errors)
    ELSE LET m == groups[g][1]
         IN  IF prev = 0 THEN VerifyLoop(F, groups, g + 1, m, ids, errors, raiseError)
             ELSE IF F[m].id \in ids
             THEN VmfResult(raiseError, "MigrationFileError", FileError("duplicate", F[m].id), errors)
             ELSE LET e == CheckPair(F[prev], F[m])
                  IN  IF e = NoFileError
                      THEN VerifyLoop(F, groups, g + 1, m, ids \cup {F[m].id}, errors, raiseError)
                      ELSE IF raiseError
                      THEN VmfResult(raiseError, "MigrationFileError", e, errors)
                      ELSE VerifyLoop(F, groups, g + 1, m, ids \cup {F[m].id},
                                      Append(errors, e), raiseError)

VerifyMigrationFiles(raiseError) ==
    /\ vmf' = VerifyLoop(mfolder, IterMigrationFiles(mfolder), 1, 0, {}, <<>>, raiseError)
    /\ UNCHANGED <<mfolder, fcall, ledgerVars, sampleVars, connVars, verifyVars>>

(***************************************************************************)
(* Migration files: repair_headers                                         *)
(***************************************************************************)
FilesCall(op, ids, now, status, modified, pre) ==
    [op |-> op, ids |-> ids, now |-> now, status |-> status, modified |-> modified,
     pre |-> pre]

NoFilesCall == FilesCall("none", <<>>, 0, "none", <<>>, <<>>)

\* a _fix_file that rewrites the header of the up file only
FixFile_UpOnly(F, k, prev, errorType) ==
    IF errorType # "header" THEN [status |-> "NotImplementedError", folder |-> F]
    ELSE IF F[k].up = NoHeader \/ F[k].down = NoHeader
    THEN [status |-> "ValueError", folder |-> F]
    ELSE [status |-> "ok",
          folder |-> [F EXCEPT ![k].up = PathName(F[prev], "up")]]

\* _fix_file: prev_file of both headers := path names of the previous pair,
\* then write_header on both files
FixFile(F, k, prev, errorType) ==
    IF errorType # "header" THEN [status |-> "NotImplementedError", folder |-> F]
    ELSE IF F[k].up = NoHeader \/ F[k].down = NoHeader
    THEN [status |-> "ValueError", folder |-> F]
    ELSE [status |-> "ok",
          folder |-> [F EXCEPT ![k].up = PathName(F[prev], "up"),
                               ![k].down = PathName(F[prev], "down")]]

\* file_errors: file_id -> error_type of the last error listed for it
ErrorTypeOf(errors, id) ==
    LET hits == {n \in 1..Len(errors) : errors[n].file_id = id}
    IN  IF hits = {} THEN "none" ELSE errors[Max(hits)].kind

\* the loop of repair_headers over the groups read before any rewrite
RECURSIVE RepairLoop(_, _, _, _, _, _)
RepairLoop(F, groups, g, prev, errors, modified) ==
    IF g > Len(groups) THEN [status |-> "returned", folder |-> F, modified |-> modified]
    ELSE IF Len(groups[g]) # 1 THEN [status |-> "ValueError", folder |-> F, modified |-> modified]
    ELSE LET k == groups[g][1]
             et == ErrorTypeOf(errors, F[k].id)
         IN  IF prev = 0 THEN RepairLoop(F, groups, g + 1, k, errors, modified)
             ELSE IF et = "none" THEN RepairLoop(F, groups, g + 1, k, errors, modified)
             ELSE LET fx == FixFile(F, k, prev, et)
                  IN  IF fx.status # "ok"
                      THEN [status |-> fx.status, folder |-> F, modified |-> modified]
                      ELSE RepairLoop(fx.folder, groups, g + 1, k, errors,
                                      modified \o <<PathName(F[k], "up"), PathName(F[k], "down")>>)

\* repair_headers(folder)
RepairHeadersRun(F) ==
    LET vr == VerifyLoop(F, IterMigrationFiles(F), 1, 0, {}, <<>>, FALSE)
    IN  IF vr.outcome # "returned"
        THEN [status |-> vr.outcome, folder |-> F, modified |-> <<>>]
        ELSE IF vr.errors = <<>>
        THEN [status |-> "returned", folder |-> F, modified |-> <<>>]
        ELSE RepairLoop(F, IterMigrationFiles(F), 1, 0, vr.errors, <<>>)

RepairHeaders ==
    /\ fcall.op = "none"
    /\ LET r == RepairHeadersRun(mfolder)
       IN  /\ mfolder' = r.folder
           /\ fcall' = FilesCall("repair_headers", <<>>, 0, r.status, r.modified, mfolder)
    /\ UNCHANGED <<vmf, ledgerVars, sampleVars, connVars, verifyVars>>

(***************************************************************************)
(* Migration files: reorder_files_by_last, reorder_files_by_applied_...    *)
(***************************************************************************)
\* MigrationFile.name: int(self.ts.timestamp()) of the naive UTC datetime
\* handed to replace_ts; timestamp() reads a naive datetime as local time, so
\* the name carries the UTC second minus the UTC offset tz of the host
NameTs(t, tz) == t - tz

\* replace_ts: the file is renamed to its canonical name for the new ts
ReplaceTs(F, k, t, tz) == [F EXCEPT ![k].ts = NameTs(t, tz), ![k].sp = 0]

\* utc_now() of a call: the second of the newest file name, a later one, and
\* one later than any time zone offset
NowChoices == {NumFilePairs, NumFilePairs + 1, NumFilePairs + 1 + MaxTzShift}

TzShifts == {0, MaxTzShift}

\* an id that names no migration of the folder
UnknownId == NumFilePairs + 1

RECURSIVE SeqsUpTo(_, _)
SeqsUpTo(S, n) ==
    IF n = 0 THEN {<<>>}
    ELSE LET shorter == SeqsUpTo(S, n - 1)
         IN  shorter \cup {Append(q, x) : q \in {r \in shorter : Len(r) = n - 1}, x \in S}

\* last_ids / last_applied_ids
IdLists == SeqsUpTo(Migs \cup {UnknownId}, MaxReorderIds)

\* the loop of reorder_files_by_last over the groups read before any rename;
\* ids is the set _file_ids, n the number of pairs renamed so far; last_ts
\* grows by one microsecond per renamed pair and reaches the next second
\* after crossAt pairs
RECURSIVE ReorderLastLoop(_, _, _, _, _, _, _, _, _)
ReorderLastLoop(F, groups, g, ids, n, now, tz, crossAt, modified) ==
    IF ids = {} \/ g > Len(groups)
    THEN [status |-> "ok", folder |-> F, modified |-> modified, left |-> ids]
    ELSE IF Len(groups[g]) # 1
    THEN [status |-> "ValueError", folder |-> F, modified |-> modified, left |-> ids]
    ELSE LET k == groups[g][1]
         IN  IF F[k].id \notin ids
             THEN ReorderLastLoop(F, groups, g + 1, ids, n, now, tz, crossAt, modified)
             ELSE LET G == ReplaceTs(F, k, IF n >= crossAt THEN now + 1 ELSE now, tz)
                  IN  ReorderLastLoop(G, groups, g + 1, ids \ {F[k].id}, n + 1, now, tz,
                          crossAt, modified \o <<PathName(G[k], "up"), PathName(G[k], "down")>>)

\* reorder_files_by_last(folder, last_ids)
ReorderFilesByLastRun(F, ids, now, tz, crossAt) ==
    IF ids = <<>> THEN [status |-> "returned", folder |-> F, modified |-> <<>>]
    ELSE LET r == ReorderLastLoop(F, IterMigrationFiles(F), 1, Range(ids), 0, now, tz,
                                  crossAt, <<>>)
         IN  IF r.status # "ok" \/ r.left # {}
             THEN [status |-> "ValueError", folder |-> r.folder, modified |-> r.modified]
             ELSE LET h == RepairHeadersRun(r.folder)
                  IN  [status |-> h.status, folder |-> h.folder,
                       modified |-> r.modified \o h.modified]

ReorderFilesByLast(ids, now, tz, crossAt) ==
    /\ fcall.op = "none"
    /\ LET r == ReorderFilesByLastRun(mfolder, ids, now, tz, crossAt)
       IN  /\ mfolder' = r.folder
           /\ fcall' = FilesCall("reorder_files_by_last", ids, now, r.status, r.modified,
                                 mfolder)
    /\ UNCHANGED <<vmf, ledgerVars, sampleVars, connVars, verifyVars>>

\* the loop of reorder_files_by_applied_migrations over the groups of
\* get_files(folder, reverse=True); ids is the set _migration_ids, nIds is
\* len(last_applied_ids), last = 0 for None
RECURSIVE AppliedLoop(_, _, _, _, _, _, _, _)
AppliedLoop(F, groups, g, ids, nIds, commit, toReorder, after) ==
    LET out(status, last) == [status |-> status, last |-> last, left |-> ids,
                              commit |-> commit, toReorder |-> toReorder, after |-> after]
    IN  IF g > Len(groups) THEN out("ok", 0)
        ELSE IF Len(groups[g]) # 1 THEN out("ValueError", 0)
        ELSE LET k == groups[g][1]
             IN  IF ids = {} THEN out("ok", k)
                 ELSE IF F[k].id \in ids
                 THEN AppliedLoop(F, groups, g + 1, ids \ {F[k].id}, nIds,
                                  Append(commit, k), toReorder, after)
                 ELSE IF Cardinality(ids) = nIds
                 THEN AppliedLoop(F, groups, g + 1, ids, nIds, commit, toReorder,
                                  Append(after, k))
                 ELSE AppliedLoop(F, groups, g + 1, ids, nIds, commit,
                                  Append(toReorder, k), after)

\* rename_files: pair i of the new order is renamed to last_ts + i seconds and
\* its headers are pointed at the pair renamed before it (at last_migrations
\* for the first one)
RECURSIVE RenameFiles(_, _, _, _, _, _, _)
RenameFiles(F, now, tz, prev, order, i, modified) ==
    IF i > Len(order) THEN [status |-> "returned", folder |-> F, modified |-> modified]
    ELSE LET k == order[i]
             G == ReplaceTs(F, k, now + (i - 1), tz)
             names == modified \o <<PathName(G[k], "up"), PathName(G[k], "down")>>
         IN  IF prev = 0 THEN RenameFiles(G, now, tz, k, order, i + 1, names)
             ELSE LET fx == FixFile(G, k, prev, "header")
                  IN  IF fx.status # "ok"
                      THEN [status |-> fx.status, folder |-> G, modified |-> names]
                      ELSE RenameFiles(fx.folder, now, tz, k, order, i + 1, names)

\* reorder_files_by_applied_migrations(folder, last_applied_ids)
ReorderFilesByAppliedRun(F, ids, now, tz) ==
    IF ids = <<>> THEN [status |-> "returned", folder |-> F, modified |-> <<>>]
    ELSE LET groups == GroupBy(F, Reverse(SortMigs(F, DOMAIN F)), <<>>)
             r == AppliedLoop(F, groups, 1, Range(ids), Len(ids), <<>>, <<>>, <<>>)
         IN  IF r.status # "ok" \/ r.left # {}
             THEN [status |-> "ValueError", folder |-> F, modified |-> <<>>]
             ELSE RenameFiles(F, now, tz, r.last, r.commit \o r.toReorder \o r.after, 1, <<>>)

ReorderFilesByAppliedMigrations(ids, now, tz) ==
    /\ fcall.op = "none"
    /\ LET r == ReorderFilesByAppliedRun(mfolder, ids, now, tz)
       IN  /\ mfolder' = r.folder
           /\ fcall' = FilesCall("reorder_files_by_applied_migrations", ids, now, r.status,
                                 r.modified, mfolder)
    /\ UNCHANGED <<vmf, ledgerVars, sampleVars, connVars, verifyVars>>

(***************************************************************************)
(* Migration files: create_new_migration                                   *)
(***************************************************************************)
\* _get_last_migration_name: the up file of the first pair of
\* get_files(reverse=True); 0 stands for None
GetLastMigrationName(F) ==
    LET groups == GroupBy(F, Reverse(SortMigs(F, DOMAIN F)), <<>>)
    IN  IF groups = <<>> THEN 0 ELSE groups[1][1]

\* the header text written to the up (down) file, as Header.from_text reads
\* it back: empty when neither Prev-file, Author nor Version has a value
NewHeader(F, last, kind, tagged) ==
    IF last # 0 THEN PathName(F[last], kind)
    ELSE IF tagged THEN EmptyPrev
    ELSE NoHeader

\* create_new_migration(folder, version) at second now of time.time(), with
\* the file_id drawn by uuid4; tagged: an author or a version is written
CreateNewMigration(id, now, tagged) ==
    /\ Len(mfolder) < NumFilePairs
    /\ \A k \in DOMAIN mfolder : mfolder[k].ts <= now /\ mfolder[k].id # id
    /\ LET last == GetLastMigrationName(mfolder)
           new == [ts |-> now, id |-> id, sp |-> 0,
                   up |-> NewHeader(mfolder, last, "up", tagged),
                   down |-> NewHeader(mfolder, last, "down", tagged)]
       IN  /\ mfolder' = Append(mfolder, new)
           /\ fcall' = FilesCall("create_new_migration", <<id>>, now, "returned",
                                 <<PathName(new, "up"), PathName(new, "down")>>, mfolder)
    /\ UNCHANGED <<vmf, ledgerVars, sampleVars, connVars, verifyVars>>

FilesIdle ==
    /\ mfolder = <<>>
    /\ vmf = VmfResult(TRUE, "idle", NoFileError, <<>>)
    /\ fcall = NoFilesCall

(***************************************************************************)
(* Connections: PGConnectionInfo and the process environment               *)
(***************************************************************************)
None == "None"

\* truth value of an optional string
Truthy(v) == v # None /\ v # ""

Ports == {5432, 5433}

\* str(port)
Str(n) == IF n = 5432 THEN "5432" ELSE "5433"

\* int(text)
IntOf(text) == IF text = "5432" THEN 5432 ELSE 5433

\* a PGConnectionInfo: host "h1" listens on 5432, "h2" on 5433; tls is "none",
\* "mode" (sslmode only) or "full" (sslmode and the three files)
Info(host, database, tls) ==
    [pg_user |-> IF host = "h1" THEN "u1" ELSE "u2",
     pg_password |-> IF host = "h1" THEN "pw1" ELSE "pw2",
     pg_host |-> host,
     pg_port |-> IF host = "h1" THEN 5432 ELSE 5433,
     ssl_mode |-> IF tls = "none" THEN None ELSE IF tls = "mode" THEN "require" ELSE "verify-full",
     ssl_ca |-> IF tls = "full" THEN "ca.pem" ELSE None,
     ssl_cert |-> IF tls = "full" THEN "crt.pem" ELSE None,
     ssl_key |-> IF tls = "full" THEN "key.pem" ELSE None,
     database |-> database]

Infos == {Info(h, db, tls) : h \in {"h1", "h2"}, db \in {None, "db"}, tls \in {"none", "mode", "full"}}

\* a dict built from (name, value) pairs with different names
Dict(pairs) == [n \in {q[1] : q \in pairs} |-> (CHOOSE q \in pairs : q[1] = n)[2]]

\* dict.update
Update(env, new) ==
    [n \in DOMAIN env \cup DOMAIN new |-> IF n \in DOMAIN new THEN new[n] ELSE env[n]]

\* PGConnectionInfo.get_env_vars
GetEnvVars(info) ==
    Dict({q \in {<<"PGSSLMODE", info.ssl_mode>>, <<"PGSSLROOTCERT", info.ssl_ca>>,
                 <<"PGSSLCERT", info.ssl_cert>>, <<"PGSSLKEY", info.ssl_key>>} : Truthy(q[2])})

\* _env of PGConnectionInfo.temp_env
TempEnvVars(info, includeDatabase) ==
    Update(Dict({<<"PGHOST", info.pg_host>>, <<"PGPORT", Str(info.pg_port)>>,
                 <<"PGUSER", info.pg_user>>, <<"PGPASSWORD", info.pg_password>>}
                \cup (IF includeDatabase /\ Truthy(info.database)
                      THEN {<<"PGDATABASE", info.database>>} ELSE {})),
           GetEnvVars(info))

\* a restore that does not clear os.environ first
Restore_NoClear(env, old) == Update(env, old)

\* the finally clause of temp_env: os.environ.clear(), os.environ.update(old_env)
Restore(env, old) == Update(Dict({}), old)

ConnCall(op, arg, result) == [op |-> op, arg |-> arg, result |-> result]

NoConnCall == ConnCall("none", None, None)

\* entering the scope: snapshot, then overlay
TempEnvEnter(info, includeDatabase) ==
    /\ Len(scopes) < MaxScopes
    /\ scopes' = Append(scopes, [info |-> info, old |-> environ])
    /\ environ' = Update(environ, TempEnvVars(info, includeDatabase))
    /\ ccall' = ConnCall("enter", includeDatabase, None)
    /\ UNCHANGED <<ledgerVars, sampleVars, verifyVars, filesVars>>

\* the body of the innermost scope changes a variable of the process (value
\* None: it deletes the variable)
BodyPutenv(name, value) ==
    /\ scopes # <<>>
    /\ environ' = IF value = None
                  THEN [n \in DOMAIN environ \ {name} |-> environ[n]]
                  ELSE Update(environ, Dict({<<name, value>>}))
    /\ ccall' = ConnCall("body", name, value)
    /\ UNCHANGED <<scopes, ledgerVars, sampleVars, verifyVars, filesVars>>

\* leaving the innermost scope, the body having returned or raised
TempEnvExit(raised) ==
    /\ scopes # <<>>
    /\ LET top == scopes[Len(scopes)]
       IN  /\ environ' = Restore(environ, top.old)
           /\ ccall' = ConnCall("exit", raised, top)
    /\ scopes' = Take(scopes, Len(scopes) - 1)
    /\ UNCHANGED <<ledgerVars, sampleVars, verifyVars, filesVars>>

\* PGConnectionInfo.dsn; a URI is the sequence of its delimiters and of the
\* texts between them
Dsn(x) ==
    <<"postgresql://", x.pg_user, ":", x.pg_password, "@", x.pg_host, ":", Str(x.pg_port)>>

RECURSIVE JoinParams(_)
\* '&'.join(ssl_params)
JoinParams(params) ==
    IF params = <<>> THEN <<>>
    ELSE <<params[1][1], "=", params[1][2]>>
         \o (IF Len(params) = 1 THEN <<>> ELSE <<"&">> \o JoinParams(Tail(params)))

\* PGConnectionInfo.pg_url
PgUrl(x) ==
    LET IsSet(q) == Truthy(q[2])
        sslParams == SelectSeq(<<<<"sslmode", x.ssl_mode>>, <<"sslrootcert", x.ssl_ca>>,
                                 <<"sslcert", x.ssl_cert>>, <<"sslkey", x.ssl_key>>>>, IsSet)
    IN  IF sslParams = <<>> THEN Dsn(x)
        ELSE Dsn(x) \o <<"?">> \o JoinParams(sslParams)

\* params.get(name, [None])[0] on parse_qs(params_str)
ParamOf(tokens, name) ==
    LET at == {k \in 1..Len(tokens) : k % 4 = 1 /\ k + 2 <= Len(tokens) /\ tokens[k] = name}
    IN  IF at = {} THEN None ELSE tokens[Min(at) + 2]

\* PGConnectionInfo.from_uri: the pattern, then the query parameters
FromUri(uri) ==
    IF \/ Len(uri) < 8
       \/ <<uri[1], uri[3], uri[5], uri[7]>> # <<"postgresql://", ":", "@", ":">>
       \/ uri[8] \notin {Str(n) : n \in Ports}
    THEN "ValueError"
    ELSE LET rest   == SubSeq(uri, 9, Len(uri))
             hasDb  == Len(rest) >= 2 /\ rest[1] = "/"
             after  == IF hasDb THEN SubSeq(rest, 3, Len(rest)) ELSE rest
             params == IF Len(after) >= 2 /\ after[1] = "?" THEN Tail(after) ELSE <<>>
         IN  [pg_user |-> uri[2], pg_password |-> uri[4], pg_host |-> uri[6],
              pg_port |-> IntOf(uri[8]),
              ssl_mode |-> ParamOf(params, "sslmode"),
              ssl_ca |-> ParamOf(params, "sslrootcert"),
              ssl_cert |-> ParamOf(params, "sslcert"),
              ssl_key |-> ParamOf(params, "sslkey"),
              database |-> IF hasDb THEN rest[2] ELSE None]

\* PGConnectionInfo.from_uri(x.pg_url)
FromUriOfPgUrl(x) ==
    /\ scopes = <<>> /\ ccall.op = "none"
    /\ ccall' = ConnCall("from_uri", x, FromUri(PgUrl(x)))
    /\ UNCHANGED <<environ, scopes, ledgerVars, sampleVars, verifyVars, filesVars>>

\* os.getenv(name, default)
Getenv(env, name, default) == IF name \in DOMAIN env THEN env[name] ELSE default

\* get_pg_envs: reload(env) reads PG_PASSWORD, PG_USER, PG_HOST and PG_PORT
\* from the process environment; the PG_SSL_* names were bound when
\* padmy.utils was imported
GetPgEnvs(env, imported) ==
    LET ca == Getenv(imported, "PGSSLROOTCERT", None)
    IN  Update(Dict({<<"PGPASSWORD", Getenv(env, "PG_PASSWORD", "postgres")>>,
                     <<"PGUSER", Getenv(env, "PG_USER", "postgres")>>,
                     <<"PGHOST", Getenv(env, "PG_HOST", "localhost")>>,
                     <<"PGPORT", Str(IntOf(Getenv(env, "PG_PORT", "5432")))>>}),
               Dict({q \in {<<"PGSSLMODE", Getenv(imported, "PGSSLMODE", None)>>,
                            <<"PGSSLROOTCERT", IF ca = "system" THEN None ELSE ca>>,
                            <<"PGSSLCERT", Getenv(imported, "PGSSLCERT", None)>>,
                            <<"PGSSLKEY", Getenv(imported, "PGSSLKEY", None)>>,
                            <<"PGSSLPASSWORD", Getenv(imported, "PGSSLPASSWORD", None)>>} :
                        Truthy(q[2])}))

\* pg_dump without connection arguments: the environment exec_cmd hands to
\* the child process (Popen(env=get_pg_envs()))
PgDump(env, imported) == GetPgEnvs(env, imported)

\* compare_databases: a dump inside the scope of each descriptor; result: the
\* environments of the two child processes
CompareDatabases(from, to) ==
    /\ scopes = <<>> /\ ccall.op = "none"
    /\ LET in1   == Update(environ, TempEnvVars(from, FALSE))
           dump1 == PgDump(in1, environ)
           out1  == Restore(in1, environ)
           in2   == Update(out1, TempEnvVars(to, FALSE))
           dump2 == PgDump(in2, environ)
       IN  /\ environ' = Restore(in2, out1)
           /\ ccall' = ConnCall("compare_databases", <<from, to>>, <<dump1, dump2>>)
    /\ UNCHANGED <<scopes, ledgerVars, sampleVars, verifyVars, filesVars>>

(***************************************************************************)
(* extract_pg_error                                                        *)
(***************************************************************************)
\* a line of psql's stderr: with "ERROR:", with "FATAL:", with "NOTICE:",
\* with "NOTICE:" and "ERROR:", other text, blank
LineKinds == {"error", "fatal", "notice", "notice-error", "text", "blank"}

\* _IS_ERROR_REG.match(line)
IsError(line) == line \in {"error", "fatal", "notice-error"}

\* an _IS_INFO_REG that matches no line
IsInfo_Never(line) == FALSE

\* _IS_INFO_REG.match(line), tried when _IS_ERROR_REG did not match
IsInfo(line) == line = "notice"

\* _clean_str on a block, given as the positions of its lines: a blank line
\* leaves no text (runs of white space, line ends included, become one space)
CleanStr(msg, block) ==
    LET HasText(i) == msg[i] # "blank"
    IN  SelectSeq(block, HasText)

RECURSIVE ExtractLoop(_, _, _, _, _)
\* the loop of extract_pg_error; open tells whether current_error is not None
ExtractLoop(msg, i, errors, open, current) ==
    LET closed == IF open THEN Append(errors, CleanStr(msg, current)) ELSE errors
    IN  IF i > Len(msg) THEN closed
        ELSE IF IsError(msg[i]) THEN ExtractLoop(msg, i + 1, closed, TRUE, <<i>>)
        ELSE IF IsInfo(msg[i]) THEN ExtractLoop(msg, i + 1, closed, FALSE, <<>>)
        ELSE ExtractLoop(msg, i + 1, errors, open,
                         IF open THEN Append(current, i) ELSE current)

ExtractPgError(msg) ==
    /\ scopes = <<>> /\ ccall.op = "none"
    /\ ccall' = ConnCall("extract_pg_error", msg, ExtractLoop(msg, 1, <<>>, FALSE, <<>>))
    /\ UNCHANGED <<environ, scopes, ledgerVars, sampleVars, verifyVars, filesVars>>

\* process environments a command starts in
Environs ==
    { Dict({<<"HOME", "home">>}),
      Dict({<<"HOME", "home">>, <<"PGHOST", "h0">>, <<"PGDATABASE", "db0">>,
            <<"PGSSLMODE", "prefer">>, <<"PG_HOST", "h0">>, <<"PG_PORT", "5432">>}) }

ConnIdle ==
    /\ environ = Dict({})
    /\ scopes = <<>>
    /\ ccall = NoConnCall

(***************************************************************************)
(* The specifications                                                      *)
(***************************************************************************)
LedgerInit ==
    /\ fileTs \in Folders
    /\ ledger = <<>>
    /\ schema = {}
    /\ lastCall = CallRecord("none", TRUE, <<>>, "none", <<>>, <<>>, {})
    /\ tableExists \in BOOLEAN
    /\ SampleIdle
    /\ VerifyIdle
    /\ FilesIdle
    /\ ConnIdle

LedgerNext ==
    \/ \E nb \in NbChoices, useTx \in BOOLEAN : MigrateUp(nb, useTx)
    \/ \E nb \in NbChoices, mid \in 0..(NumMigrations + 1), useTx \in BOOLEAN :
           MigrateDown(nb, mid, useTx)
    \/ MigrateSetup

SpecLedger == LedgerInit /\ [][LedgerNext]_vars

\* verify_migrations between transactional migrate_up and migrate_down calls
CommandsNext ==
    \/ \E nb \in {-1, 1} : MigrateUp(nb, TRUE)
    \/ \E nb \in {-1, 1}, mid \in {0, 1} : MigrateDown(nb, mid, TRUE)
    \/ \E metadata \in {"null", "caller"} : VerifyMigrations(metadata)
    \/ MigrateSetup

SpecCommands == LedgerInit /\ [][CommandsNext]_vars

SampleInit ==
    /\ SampleGraphInit \/ SampleDataInit
    /\ SampleRunInit
    /\ LedgerIdle
    /\ VerifyIdle
    /\ FilesIdle
    /\ ConnIdle

SampleNext ==
    \/ \E startFrom \in {"node", "leaf"} : CreateTempTablesStart(startFrom)
    \/ \E t \in Tables : CreateTempTablesVisit(t)
    \/ CreateTempTablesEndPass

SpecSample == SampleInit /\ [][SampleNext]_vars

\* create_temp_tables with the default start_from on an acyclic graph
TempInit ==
    /\ fks \in DagGraphs
    /\ ignored \in {X \in SUBSET Tables : Cardinality(X) <= 1}
    /\ rowCount = [t \in Tables |-> 0]
    /\ samplePct = [t \in Tables |-> 100]
    /\ fkVal = [fk \in fks |-> <<>>]
    /\ pkCols = [t \in Tables |-> 1]
    /\ SampleRunInit
    /\ LedgerIdle
    /\ VerifyIdle
    /\ FilesIdle
    /\ ConnIdle

TempNext ==
    \/ CreateTempTablesStart("node")
    \/ \E t \in Tables : CreateTempTablesVisit(t)
    \/ CreateTempTablesEndPass

SpecTemp == TempInit /\ [][TempNext]_vars

\* references of the rows of a child: all NULL, all to row 1, row i to row i
RefPatterns ==
    { [i \in 1..RowsPerTable |-> 0], [i \in 1..RowsPerTable |-> 1],
      [i \in 1..RowsPerTable |-> i] }

\* primary keys: one column everywhere, or one table with none or with two
PkPatterns ==
    { [t \in Tables |-> 1] } \cup
    { [t \in Tables |-> IF t = u THEN n ELSE 1] : u \in Tables, n \in {0, 2} }

\* a database handed to sample_database: tables with rows, one table
\* referencing another or a chain of three, the others without foreign key
SampleDbInit ==
    /\ ignored \in {X \in SUBSET Tables : Cardinality(X) <= 1}
    /\ rowCount = [t \in Tables |-> RowsPerTable]
    /\ samplePct \in {[t \in Tables |-> 100], [t \in Tables |-> 50]}
    /\ pkCols \in PkPatterns
    /\ fks \in {SingleFK, ChainFK}
    /\ fkVal \in [fks -> RefPatterns]
    /\ SampleRunInit
    /\ LedgerIdle
    /\ VerifyIdle
    /\ FilesIdle
    /\ ConnIdle

\* sample_database calls create_temp_tables with the default start_from
SampleDbNext ==
    \/ CreateTempTablesStart("node")
    \/ \E t \in Tables : CreateTempTablesVisit(t)
    \/ CreateTempTablesEndPass
    \/ SampleDatabaseTransfer

SpecSampleDb == SampleDbInit /\ [][SampleDbNext]_vars

VerifyInit ==
    /\ fileTs \in Folders
    /\ ledger = <<>>
    /\ schema = {}
    /\ lastCall = CallRecord("none", TRUE, <<>>, "none", <<>>, <<>>, {})
    /\ tableExists = TRUE
    /\ downKind \in [FileIds -> DownKinds]
    /\ skipVerify = [f \in FileIds |-> FALSE]
    /\ downHeader \in [FileIds -> {{"author"}, {"author", "skip-verify"}}]
    /\ dbObjects = {BaseObject}
    /\ vcall = NoCall
    /\ vpc = "init"
    /\ vi = 1
    /\ vDownFiles = <<>>
    /\ vres = VerifyResult("none", 0, "none")
    /\ vLog = <<>>
    /\ vChecks = <<>>
    /\ vPrev = [call |-> NoCall, res |-> VerifyResult("none", 0, "none")]
    /\ SampleIdle
    /\ FilesIdle
    /\ ConnIdle

VerifyNext ==
    \/ \E onlyLast \in BOOLEAN, skipRestore \in BOOLEAN : MigrateVerifyStart(onlyLast, skipRestore)
    \/ MigrateVerifyPair
    \/ MigrateVerifyRestore

SpecVerify == VerifyInit /\ [][VerifyNext]_vars

\* folders in which one down file holds any set of header lines and the
\* other down files hold an Author line
SkipHeaders ==
    { [f \in FileIds |-> IF f = g THEN text ELSE {"author"}] :
        g \in FileIds, text \in SUBSET HeaderFields }

SkipInit ==
    /\ fileTs \in Folders
    /\ ledger = <<>>
    /\ schema = {}
    /\ lastCall = CallRecord("none", TRUE, <<>>, "none", <<>>, <<>>, {})
    /\ tableExists = TRUE
    /\ downKind \in {[f \in FileIds |-> "exact"], [f \in FileIds |-> "none"]}
    /\ skipVerify = [f \in FileIds |-> FALSE]
    /\ downHeader \in SkipHeaders
    /\ dbObjects = {BaseObject}
    /\ vcall = NoCall
    /\ vpc = "init"
    /\ vi = 1
    /\ vDownFiles = <<>>
    /\ vres = VerifyResult("none", 0, "none")
    /\ vLog = <<>>
    /\ vChecks = <<>>
    /\ vPrev = [call |-> NoCall, res |-> VerifyResult("none", 0, "none")]
    /\ SampleIdle
    /\ FilesIdle
    /\ ConnIdle

SpecSkip == SkipInit /\ [][VerifyNext]_vars

FilesInit ==
    /\ mfolder \in MigrationFolders
    /\ vmf = VmfResult(TRUE, "none", NoFileError, <<>>)
    /\ fcall = NoFilesCall
    /\ LedgerIdle
    /\ SampleIdle
    /\ VerifyIdle
    /\ ConnIdle

FilesNext == \E raiseError \in BOOLEAN : VerifyMigrationFiles(raiseError)

SpecFiles == FilesInit /\ [][FilesNext]_vars

\* repair_headers called on a folder
RepairInit == FilesInit

RepairNext == RepairHeaders

SpecRepair == RepairInit /\ [][RepairNext]_vars

\* verify_migration_files and repair_headers called on a folder
OrderNext ==
    \/ \E raiseError \in BOOLEAN : VerifyMigrationFiles(raiseError)
    \/ RepairHeaders

SpecOrder == FilesInit /\ [][OrderNext]_vars

\* folders given to the reorder operations: file_ids all different, headers
\* naming the pair before, except for at most one pair without headers or
\* with headers naming the pair after
ReorderStyles ==
    { [k \in Migs |-> "before"] } \cup
    { [k \in Migs |-> IF k = j THEN st ELSE "before"] : j \in Migs, st \in {"none", "after"} }

ReorderFolders ==
    {MakeFolder(ts, id, style) :
        ts \in TsPatterns,
        id \in {[k \in Migs |-> k], [k \in Migs |-> NumFilePairs + 1 - k]},
        style \in ReorderStyles}

ReorderInit ==
    /\ mfolder \in ReorderFolders
    /\ vmf = VmfResult(TRUE, "none", NoFileError, <<>>)
    /\ fcall = NoFilesCall
    /\ LedgerIdle
    /\ SampleIdle
    /\ VerifyIdle
    /\ ConnIdle

ReorderNext ==
    \E ids \in IdLists, now \in NowChoices, tz \in TzShifts :
        \/ \E crossAt \in 1..MaxReorderIds : ReorderFilesByLast(ids, now, tz, crossAt)
        \/ ReorderFilesByAppliedMigrations(ids, now, tz)

SpecReorder == ReorderInit /\ [][ReorderNext]_vars

\* a folder filled by create_new_migration alone
CreateInit ==
    /\ mfolder = <<>>
    /\ vmf = VmfResult(TRUE, "none", NoFileError, <<>>)
    /\ fcall = NoFilesCall
    /\ LedgerIdle
    /\ SampleIdle
    /\ VerifyIdle
    /\ ConnIdle

CreateNext ==
    \E id \in Migs, now \in 1..MaxClock, tagged \in BOOLEAN : CreateNewMigration(id, now, tagged)

SpecCreate == CreateInit /\ [][CreateNext]_vars

ConnInit ==
    /\ environ \in Environs
    /\ scopes = <<>>
    /\ ccall = NoConnCall
    /\ LedgerIdle
    /\ SampleIdle
    /\ VerifyIdle
    /\ FilesIdle

\* connection descriptors the scopes are opened with
ScopeInfos == {Info("h1", "db", "none"), Info("h2", None, "mode"), Info("h2", "db", "full")}

EnvNext ==
    \/ \E info \in ScopeInfos, includeDatabase \in BOOLEAN : TempEnvEnter(info, includeDatabase)
    \/ \E q \in {<<"TMP", "x">>, <<"PGHOST", None>>} : BodyPutenv(q[1], q[2])
    \/ \E raised \in BOOLEAN : TempEnvExit(raised)

SpecEnv == ConnInit /\ [][EnvNext]_vars

Messages == UNION {[1..n -> LineKinds] : n \in 0..MaxLines}

UtilsNext ==
    \/ \E x \in Infos : FromUriOfPgUrl(x)
    \/ \E from \in ScopeInfos, to \in ScopeInfos : CompareDatabases(from, to)
    \/ \E msg \in Messages : ExtractPgError(msg)

SpecUtils == ConnInit /\ [][UtilsNext]_vars

(***************************************************************************)
(* Claims about the migration ledger                                       *)
(***************************************************************************)
\* a migration is currently applied when its most recent ledger row is 'up'
CurrentlyApplied(led, f) ==
    \E i \in 1..Len(led) :
        /\ led[i].file_id = f
        /\ led[i].migration_type = "up"
        /\ \A j \in (i + 1)..Len(led) : led[j].file_id # f

RowsAdded(pre, post) == SubSeq(post, Len(pre) + 1, Len(post))

\* C1: migrate_up executes only up files of migrations that are not currently
\* applied, and when every migration of the folder is currently applied it
\* executes nothing and returns False.
C1_UpOnlyRunsUnapplied ==
    lastCall.op = "up" =>
        /\ \A f \in Range(lastCall.selected) : ~CurrentlyApplied(lastCall.preLedger, f)
        /\ (\A f \in FileIds : CurrentlyApplied(lastCall.preLedger, f))
              => (lastCall.selected = <<>> /\ lastCall.result = "False")

\* C3: from any reachable ledger with at least n migrations pending,
\* migrate_up(n) then migrate_down(n) adds exactly 2n rows, n of kind 'up'
\* followed by n of kind 'down' for the same file_ids, and leaves the set of
\* applied schema changes as it was.
C3_UpThenDownRoundTrip ==
    \A n \in 1..NumMigrations :
        Cardinality({f \in FileIds : ~CurrentlyApplied(ledger, f)}) >= n =>
            \A latest \in GetLatestMigration(ledger) :
                LET ups   == GetMigrationFiles(fileTs, latest, n)
                    s1    == RunBatch(fileTs, ledger, schema, "up", ups, 0, TRUE)
                    downs == GetRollbackFiles(fileTs, s1.ledger, n, 0).files
                    s2    == RunBatch(fileTs, s1.ledger, s1.schema, "down", downs, 0, TRUE)
                    added == RowsAdded(ledger, s2.ledger)
                IN  /\ Len(added) = 2 * n
                    /\ \A i \in 1..Len(added) :
                           added[i].migration_type = (IF i <= n THEN "up" ELSE "down")
                    /\ {added[i].file_id : i \in 1..n}
                         = {added[i].file_id : i \in (n + 1)..Len(added)}
                    /\ s2.schema = schema

\* C4: a ledger row is inserted only after the body of its file executed
\* successfully (the rows a call adds are exactly those of the files whose body
\* completed, in that order), and with use_transaction a failing batch leaves
\* ledger and schema as they were before the call.
C4_RowAfterBodyAndAtomicBatch ==
    lastCall.op \in {"up", "down"} =>
        LET added == RowsAdded(lastCall.preLedger, ledger)
            kept  == IF lastCall.result = "error" /\ lastCall.useTx
                     THEN <<>> ELSE lastCall.executed
        IN  /\ SubSeq(ledger, 1, Len(lastCall.preLedger)) = lastCall.preLedger
            /\ [i \in 1..Len(added) |-> added[i].file_id] = kept
            /\ \A i \in 1..Len(added) : added[i].migration_type = lastCall.op
            /\ (lastCall.result = "error" /\ lastCall.useTx)
                  => (ledger = lastCall.preLedger /\ schema = lastCall.preSchema)
            /\ lastCall.result = "error"
                  => Len(lastCall.executed) < Len(lastCall.selected)

\* a transactional batch whose second or later file fails
C4_Witness ==
    /\ lastCall.result = "error"
    /\ lastCall.useTx
    /\ Len(lastCall.executed) >= 1
    /\ ledger = lastCall.preLedger

(***************************************************************************)
(* Claims about sampling                                                   *)
(***************************************************************************)
\* the foreign-key graph over non-ignored tables, self-references excluded
SafeEdges == {<<fk.child, fk.parent>> : fk \in
                 {x \in fks : x.child # x.parent /\ x.child \notin ignored
                              /\ x.parent \notin ignored}}

RECURSIVE ReachFrom(_, _)
ReachFrom(S, n) ==
    IF n = 0 THEN S
    ELSE ReachFrom(S \cup {e[2] : e \in {x \in SafeEdges : x[1] \in S}}, n - 1)

\* tables reachable from t along at least one edge
Reachable(t) == ReachFrom({e[2] : e \in {x \in SafeEdges : x[1] = t}}, NumTables)

HasCycle == \E t \in Tables : t \in Reachable(t)

\* C2: after create_temp_tables succeeds the temporary tables are closed under
\* referential integrity: for every foreign key of a non-ignored table C to
\* another non-ignored table P and every row of C's temporary table with a
\* non-null key, the referenced row of P is in P's temporary table.
C2_TempTablesReferentiallyClosed ==
    (spc = "done" /\ sres = "ok") =>
        \A fk \in fks :
            (fk.child # fk.parent /\ fk.child \notin ignored /\ fk.parent \notin ignored) =>
                \A r \in tmp[fk.child] :
                    fkVal[fk][r] # 0 => fkVal[fk][r] \in tmp[fk.parent]

\* C5: whenever a table is marked has_been_processed, every child of it that
\* is not ignored and is not the table itself is already processed.
C5_ChildrenBeforeParent ==
    \A t \in processed : ChildTablesSafe(fks, ignored, t) \subseteq processed

\* a parent with a non-ignored child has had its temporary table built
C5_Witness ==
    \E t \in processed :
        /\ ChildTablesSafe(fks, ignored, t) # {}
        /\ ChildTablesSafe(fks, ignored, t) \subseteq processed

\* C6: whenever the foreign-key graph over non-ignored tables (self-references
\* excluded) contains a cycle, create_temp_tables ends by raising the
\* "Cyclic foreign keys detected" error: no other error, no normal return.
C6_CycleRaisesCyclicError ==
    (HasCycle /\ spc = "done") => sres = "CyclicFK"

\* C22: with every table sampled at 100% and no table ignored, on an acyclic
\* schema, sample_database ends normally with every row of every source
\* table in that table's temporary table and in the target table.
C22_FullSampleCopiesEveryRow ==
    (spc = "end" /\ ignored = {} /\ ~HasCycle /\ \A t \in Tables : samplePct[t] = 100)
        => /\ sres = "ok"
           /\ \A t \in Tables : tmp[t] = Rows(t) /\ target[t] = Rows(t)

\* C26: for every acyclic foreign-key graph with at least one non-ignored
\* table and every iteration order of the worklist sets, create_temp_tables
\* ends normally, not with the cyclic-foreign-keys error, and leaves every
\* non-ignored table processed, each temporary table built once.
C26_AcyclicGraphCompletes ==
    (spc = "done" /\ ~HasCycle /\ Tables \ ignored # {})
        => sres = "ok" /\ processed = Tables \ ignored

\* C27: with some table ignored, single-column primary keys and an acyclic
\* graph, sample_database ends normally: every non-ignored table has its
\* temporary table built and its rows transferred to the target, and no
\* temporary table is built for an ignored table.
C27_IgnoredTablesLeftOut ==
    (spc = "end" /\ ignored # {} /\ ~HasCycle /\ \A t \in Tables : pkCols[t] = 1)
        => /\ sres = "ok"
           /\ processed = Tables \ ignored
           /\ \A t \in Tables \ ignored : target[t] = tmp[t]
           /\ \A t \in ignored : tmp[t] = {}

(***************************************************************************)
(* Claims about migrate_verify                                             *)
(***************************************************************************)
\* position of migration i in ascending (ts, file_id) order
Pos(i) == CHOOSE k \in 1..NumMigrations : GetFiles(fileTs)[k] = i

\* the database with the up files of the pairs before i applied on top of
\* the database the call started on
StateBefore(call, i) == call.start \cup {GetFiles(fileTs)[k] : k \in 1..(Pos(i) - 1)}

\* pair i is checked: not skip-verify and not excluded by only_last
Checked(call, i) ==
    /\ ~skipVerify[i]
    /\ ~(call.onlyLast /\ Pos(i) # NumMigrations /\ NumMigrations # 1)

\* the down file of pair i undoes its up file on the state before i
DownUndoesUp(call, i) ==
    LET up == ExecUp(i, StateBefore(call, i))
        down == ExecDown(downKind, i, up.db)
    IN  up.ok /\ down.ok /\ down.db = StateBefore(call, i)

\* up then down of pair i run on the state before i and leave another schema
RoundTripFails(call, i) ==
    LET up == ExecUp(i, StateBefore(call, i))
        down == ExecDown(downKind, i, up.db)
    IN  up.ok /\ down.ok /\ down.db # StateBefore(call, i)

FirstFailing(call, m) ==
    /\ Checked(call, m) /\ RoundTripFails(call, m)
    /\ \A j \in FileIds : (Pos(j) < Pos(m) /\ Checked(call, j)) => ~RoundTripFails(call, j)

\* C7: a call of migrate_verify that no psql error ends inside the loop
\* raises MigrationError naming m if and only if m is the first pair in
\* ascending (ts, file_id) order that is checked and whose up followed by
\* its down does not restore the schema dumped before it; every check of a
\* pair is made on the start database plus the up files of all earlier pairs.
C7_ErrorNamesFirstFailingPair ==
    vpc = "done" =>
        /\ \A m \in FileIds :
              (vres.status = "MigrationError" /\ vres.id = m) => FirstFailing(vcall, m)
        /\ \A m \in FileIds :
              (FirstFailing(vcall, m) /\ ~(vres.status = "PGError" /\ vres.at = "loop"))
                  => (vres.status = "MigrationError" /\ vres.id = m)
        /\ \A k \in 1..Len(vChecks) : vChecks[k].before = StateBefore(vcall, vChecks[k].id)

\* the error names a pair that is not the first of the folder, reached after
\* a pair whose faulty down file was not checked
C7_Witness ==
    /\ vpc = "done"
    /\ vres.status = "MigrationError"
    /\ Pos(vres.id) > 1
    /\ \E j \in FileIds : Pos(j) < Pos(vres.id) /\ ~Checked(vcall, j) /\ downKind[j] = "none"

\* ids of the log entries of one phase, in execution order
LogIds(log, phase) ==
    LET InPhase(e) == e.phase = phase
        sel == SelectSeq(log, InPhase)
    IN  [k \in 1..Len(sel) |-> sel[k].id]

\* the restore loop ran the down file of every applied up file, last first
UndoneInReverse == LogIds(vLog, "restore") = Reverse(LogIds(vLog, "apply"))

\* the call before completed without error and restored
PrevCompleted == vPrev.res.status = "ok" /\ ~vPrev.call.skipRestore

\* C8 as stated: whenever migrate_verify completes without error and
\* skip_down_restore is false, the applied up files have been undone in
\* reverse order, the schema equals the schema at the start of the call, and
\* an immediate second call on the same folder succeeds.
C8_RestoresStartSchema ==
    /\ (vpc = "done" /\ vres.status = "ok" /\ ~vcall.skipRestore)
          => (UndoneInReverse /\ dbObjects = vcall.start)
    /\ (vpc = "done" /\ PrevCompleted) => vres.status = "ok"

\* every pair the call does not check has a down file that undoes its up file
UncheckedDownsUndo(call) == \A i \in FileIds : ~Checked(call, i) => DownUndoesUp(call, i)

\* C8 amended: the same, provided the down file of every pair that is not
\* checked (skip-verify or excluded by only_last) undoes its up file.
C8_RestoresWhenUncheckedDownsUndo ==
    /\ (vpc = "done" /\ vres.status = "ok" /\ ~vcall.skipRestore)
          => /\ UndoneInReverse
             /\ UncheckedDownsUndo(vcall) => dbObjects = vcall.start
    /\ (vpc = "done" /\ PrevCompleted /\ UncheckedDownsUndo(vPrev.call)) => vres.status = "ok"

\* a second call completed after a first one that skipped a pair, left one
\* out because of only_last and checked the last one
C8_Witness ==
    /\ vpc = "done" /\ vres.status = "ok" /\ ~vcall.skipRestore
    /\ PrevCompleted /\ UncheckedDownsUndo(vPrev.call)
    /\ vPrev.call.onlyLast
    /\ \E i \in FileIds : skipVerify[i]
    /\ \E i \in FileIds : ~skipVerify[i] /\ ~Checked(vPrev.call, i)
    /\ dbObjects = vcall.start

\* C21: a pair whose down file holds a Skip-verify header line is never
\* round-trip checked by migrate_verify, whatever other header lines the
\* down file holds or lacks.
C21_SkipVerifyLineNeverChecked ==
    \A k \in 1..Len(vChecks) : "skip-verify" \notin downHeader[vChecks[k].id]

(***************************************************************************)
(* Claims about verify_migration_files                                     *)
(***************************************************************************)
\* the migration immediately before k in ascending (ts, file_id) order
IsPrevOf(F, j, k) ==
    /\ KeyLess(F, j, k)
    /\ ~\E l \in DOMAIN F : KeyLess(F, j, l) /\ KeyLess(F, l, k)

\* a non-first up or down file with a header whose prev_file is not the
\* name of the file before it in its sequence
Mismatch(F, k) ==
    \E j \in DOMAIN F :
        /\ IsPrevOf(F, j, k)
        /\ \/ (F[k].up # NoHeader /\ F[k].up # PathName(F[j], "up"))
           \/ (F[k].down # NoHeader /\ F[k].down # PathName(F[j], "down"))

FirstMismatch(F, k) ==
    Mismatch(F, k) /\ \A j \in DOMAIN F : KeyLess(F, j, k) => ~Mismatch(F, j)

\* C9: when verify_migration_files reports no error, every non-first up and
\* down file with a header names the file before it in its sequence; and in
\* a call not ended by a duplicate or a malformed pair, a mismatch is reported
\* as a 'header' error for its file_id: with raise_error the first one is
\* raised, without it the list returned holds exactly the mismatching ones.
C9_HeaderChainChecked ==
    /\ (vmf.outcome = "returned" /\ vmf.errors = <<>>)
          => \A k \in Migs : ~Mismatch(mfolder, k)
    /\ (vmf.outcome = "returned" /\ ~vmf.raise_error)
          => /\ \A n \in 1..Len(vmf.errors) : vmf.errors[n].kind = "header"
             /\ {vmf.errors[n].file_id : n \in 1..Len(vmf.errors)}
                   = {mfolder[k].id : k \in {x \in Migs : Mismatch(mfolder, x)}}
             /\ Len(vmf.errors) = Cardinality({x \in Migs : Mismatch(mfolder, x)})
    /\ (vmf.raise_error /\ vmf.outcome \in {"returned", "MigrationFileError"}
          /\ vmf.kind # "duplicate")
          => /\ (\E k \in Migs : Mismatch(mfolder, k)) <=> vmf.outcome = "MigrationFileError"
             /\ vmf.outcome = "MigrationFileError"
                   => /\ vmf.kind = "header"
                      /\ \E k \in Migs : FirstMismatch(mfolder, k) /\ vmf.file_id = mfolder[k].id

\* without raise_error, two mismatching migrations are returned while another
\* migration with a header passed
C9_Witness ==
    /\ vmf.outcome = "returned" /\ ~vmf.raise_error
    /\ Len(vmf.errors) = 2
    /\ \E k \in Migs : mfolder[k].up # NoHeader /\ mfolder[k].down # NoHeader
                       /\ (\E j \in Migs : IsPrevOf(mfolder, j, k)) /\ ~Mismatch(mfolder, k)

\* C10: whenever two distinct migrations of the folder share a file_id,
\* verify_migration_files raises a MigrationFileError of kind 'duplicate',
\* with raise_error true or false.
C10_DuplicateAlwaysRaised ==
    (vmf.outcome # "none" /\ \E a \in Migs, b \in Migs : a # b /\ mfolder[a].id = mfolder[b].id)
        => (vmf.outcome = "MigrationFileError" /\ vmf.kind = "duplicate")

(***************************************************************************)
(* Claims about repair_headers and the reorder operations                  *)
(***************************************************************************)
\* the file names of the folder (headers left out)
Names(F) == [k \in DOMAIN F |-> <<F[k].ts, F[k].id, F[k].sp>>]

\* verify_migration_files(folder, raise_error=False) returns an empty list
VerifiesClean(F) ==
    LET vr == VerifyLoop(F, IterMigrationFiles(F), 1, 0, {}, <<>>, FALSE)
    IN  vr.outcome = "returned" /\ vr.errors = <<>>

\* C11: when repair_headers returns normally, no file has been renamed,
\* verify_migration_files run afterwards reports no error, and a second
\* repair_headers changes nothing and returns an empty list.
C11_RepairHeadersIdempotent ==
    (fcall.op = "repair_headers" /\ fcall.status = "returned")
        => /\ Names(mfolder) = Names(fcall.pre)
           /\ VerifiesClean(mfolder)
           /\ LET again == RepairHeadersRun(mfolder)
              IN  /\ again.status = "returned"
                  /\ again.folder = mfolder
                  /\ again.modified = <<>>

\* repair_headers returned after rewriting the headers of two migrations
C11_Witness ==
    /\ fcall.op = "repair_headers" /\ fcall.status = "returned"
    /\ Len(fcall.modified) = 4
    /\ mfolder # fcall.pre

\* the file_ids of the folder in get_files order
IdOrder(F) == LET o == SortMigs(F, DOMAIN F) IN [i \in 1..Len(o) |-> F[o[i]].id]

Listed(F, k) == F[k].id \in Range(fcall.ids)

\* the migrations not listed keep their relative order
UnlistedKeepOrder ==
    \A a \in DOMAIN mfolder, b \in DOMAIN mfolder :
        (~Listed(mfolder, a) /\ ~Listed(mfolder, b))
            => (KeyLess(fcall.pre, a, b) <=> KeyLess(mfolder, a, b))

\* the pairs that were renamed or whose headers were rewritten
Touched == {k \in DOMAIN mfolder : mfolder[k] # fcall.pre[k]}

AllHeaders(F) == \A k \in DOMAIN F : F[k].up # NoHeader /\ F[k].down # NoHeader

NoRepeat(q) == \A i \in 1..Len(q), j \in 1..Len(q) : q[i] = q[j] => i = j

\* C12: after reorder_files_by_last returns on a valid folder whose files all
\* have headers and timestamps earlier than the current time, the migrations
\* not listed sort before the listed ones and keep their relative order, the
\* returned paths are exactly the renamed or header-rewritten files, and
\* verify_migration_files reports no error.
C12_ReorderByLastOnValidFolder ==
    (/\ fcall.op = "reorder_files_by_last" /\ fcall.status = "returned"
     /\ VerifiesClean(fcall.pre) /\ AllHeaders(fcall.pre)
     /\ \A k \in DOMAIN fcall.pre : fcall.pre[k].ts < fcall.now)
        => /\ \A a \in DOMAIN mfolder, b \in DOMAIN mfolder :
                  (~Listed(mfolder, a) /\ Listed(mfolder, b)) => KeyLess(mfolder, a, b)
           /\ UnlistedKeepOrder
           /\ Range(fcall.modified)
                 = {PathName(mfolder[k], kind) : k \in Touched, kind \in {"up", "down"}}
           /\ VerifiesClean(mfolder)

\* C13: after reorder_files_by_last the listed migrations are the last ones
\* of the folder, ids[0] being the final one, ids[1] the one before it, and
\* so on, for every permutation of ids.
C13_ListedLastInGivenOrder ==
    (/\ fcall.op = "reorder_files_by_last" /\ fcall.status = "returned"
     /\ NoRepeat(fcall.ids))
        => LET o == IdOrder(mfolder)
           IN  \A i \in 1..Len(fcall.ids) : o[Len(o) + 1 - i] = fcall.ids[i]

PosIn(q, x) == CHOOSE i \in 1..Len(q) : q[i] = x

\* C14: after reorder_files_by_applied_migrations returns, the folder holds
\* the migrations older than every listed one (unchanged), then the listed
\* ones with appliedIds[0] last of them, then the non-listed ones that lay
\* between listed ones, then the non-listed ones newer than every listed one,
\* for every permutation of appliedIds; verify_migration_files reports no
\* error.
C14_AppliedOrder ==
    (/\ fcall.op = "reorder_files_by_applied_migrations" /\ fcall.status = "returned"
     /\ fcall.ids # <<>> /\ NoRepeat(fcall.ids))
        => LET before == IdOrder(fcall.pre)
               o == IdOrder(mfolder)
               listed == Range(fcall.ids)
               first == Min({PosIn(before, x) : x \in listed})
               last == Max({PosIn(before, x) : x \in listed})
               older == {before[i] : i \in 1..(first - 1)}
               between == {before[i] : i \in first..last} \ listed
               newer == {before[i] : i \in (last + 1)..Len(before)}
               a == Cardinality(older)
               c == Len(fcall.ids)
               b == Cardinality(between)
           IN  /\ SubSeq(o, 1, a) = SubSeq(before, 1, a)
               /\ SubSeq(o, a + 1, a + c) = Reverse(fcall.ids)
               /\ {o[i] : i \in (a + c + 1)..(a + c + b)} = between
               /\ {o[i] : i \in (a + c + b + 1)..Len(o)} = newer
               /\ VerifiesClean(mfolder)

\* C15: reorder_files_by_applied_migrations keeps the relative order of the
\* migrations that are not in appliedIds.
C15_UnappliedKeepOrder ==
    (fcall.op = "reorder_files_by_applied_migrations" /\ fcall.status = "returned")
        => UnlistedKeepOrder

\* C16: a folder produced by successive create_new_migration calls with
\* non-decreasing clock values passes verify_migration_files after each call:
\* the header of every non-first up (down) file names the up (down) file just
\* before it in (ts, file_id) order, whatever file_ids were drawn.
C16_CreatedFolderVerifies ==
    (fcall.op = "create_new_migration")
        => /\ VerifiesClean(mfolder)
           /\ \A k \in DOMAIN mfolder : ~Mismatch(mfolder, k)

\* some id of the list names no migration of the folder F
HasUnknownId(ids, F) ==
    \E n \in 1..Len(ids) : \A k \in DOMAIN F : F[k].id # ids[n]

\* C29: when some id of the list matches no migration, both reorder
\* operations raise ValueError and leave the folder as it was: no file
\* renamed, no header rewritten.
C29_UnknownIdLeavesFolderAlone ==
    (/\ fcall.op \in {"reorder_files_by_last", "reorder_files_by_applied_migrations"}
     /\ HasUnknownId(fcall.ids, fcall.pre))
        => fcall.status = "ValueError" /\ mfolder = fcall.pre

\* the same for reorder_files_by_applied_migrations alone
C29_AppliedLeavesFolderAlone ==
    (/\ fcall.op = "reorder_files_by_applied_migrations"
     /\ HasUnknownId(fcall.ids, fcall.pre))
        => fcall.status = "ValueError" /\ mfolder = fcall.pre

\* some pair of the folder F is listed before a pair with an earlier timestamp
ListedOutOfOrder(F) == \E a \in DOMAIN F, b \in DOMAIN F : a < b /\ F[a].ts > F[b].ts

\* C30: whatever the folder holds, verify_migration_files reports no error
\* of kind 'order': the error it raises and the errors it returns are of
\* kind 'header' or 'duplicate', and repair_headers never ends in the
\* NotImplementedError of the 'order' repair.
C30_NoOrderError ==
    /\ vmf.kind \in {"none", "header", "duplicate"}
    /\ \A n \in 1..Len(vmf.errors) : vmf.errors[n].kind \in {"header", "duplicate"}
    /\ fcall.op = "repair_headers" => fcall.status # "NotImplementedError"

C30_Witness ==
    /\ ListedOutOfOrder(mfolder)
    /\ vmf.outcome = "returned" /\ vmf.errors # <<>>
    /\ fcall.op = "repair_headers" /\ fcall.status = "returned" /\ fcall.modified # <<>>
    /\ ListedOutOfOrder(fcall.pre)

(***************************************************************************)
(* Claims about the selection of files by the migration commands           *)
(***************************************************************************)
\* q holds the k first elements of S in the order Less (all of S when k is
\* not below the size of S), in that order
FirstOf(q, S, k, Less(_, _)) ==
    /\ \A i \in 1..Len(q), j \in 1..Len(q) : i < j => Less(q[i], q[j])
    /\ Range(q) \subseteq S
    /\ \A f \in S \ Range(q), g \in Range(q) : Less(g, f)
    /\ Len(q) = IF k < Cardinality(S) THEN k ELSE Cardinality(S)

\* the call executed the selected files in order: all of them, or the ones
\* before a failing file
ExecutedInOrder(rec) ==
    /\ Len(rec.executed) <= Len(rec.selected)
    /\ rec.executed = SubSeq(rec.selected, 1, Len(rec.executed))
    /\ rec.result = "True" => rec.executed = rec.selected

\* the 'up' rows whose file_id has no 'down' row that tie with the last one
\* inserted on applied_at and file_ts; NoRow when there is none
LatestApplied(led) ==
    LET cand == {i \in 1..Len(led) :
                    led[i].migration_type = "up" /\ ~HasDownRow(led, led[i].file_id)}
    IN  IF cand = {} THEN {NoRow}
        ELSE {led[i] : i \in {k \in cand : /\ led[k].applied_at = led[Max(cand)].applied_at
                                           /\ led[k].file_ts = led[Max(cand)].file_ts}}

C18_RollbackFiles ==
    /\ \A nb \in NbChoices, mid \in 0..(NumMigrations + 1) :
          LET cand == {f \in FileIds :
                          /\ \E i \in 1..Len(ledger) :
                                 ledger[i].migration_type = "up" /\ ledger[i].file_id = f
                          /\ ~HasDownRow(ledger, f)}
              Newer(f, g) == FileLess(fileTs, g, f)
              got == GetRollbackFiles(fileTs, ledger, NbOrAll(nb), mid)
          IN  IF (mid # 0 /\ nb > 0) \/ (mid # 0 /\ mid \notin cand)
              THEN got.error = "ValueError" /\ got.files = <<>>
              ELSE /\ got.error = "none"
                   /\ IF mid # 0
                      THEN /\ FirstOf(got.files, cand, Len(got.files), Newer)
                           /\ got.files # <<>> /\ got.files[Len(got.files)] = mid
                      ELSE FirstOf(got.files, cand,
                                   IF nb > 0 THEN nb ELSE Cardinality(cand), Newer)
    /\ (lastCall.op = "down" /\ lastCall.result # "NoSetupTableError")
          => /\ ExecutedInOrder(lastCall)
             /\ lastCall.result = "ValueError"
                   => (lastCall.executed = <<>> /\ ledger = lastCall.preLedger)
             /\ \E nb \in NbChoices, mid \in 0..(NumMigrations + 1) :
                    LET got == GetRollbackFiles(fileTs, lastCall.preLedger, NbOrAll(nb), mid)
                    IN  /\ lastCall.selected = got.files
                        /\ got.error # "none" <=> lastCall.result = "ValueError"

\* migrate_down with a count rolled back the two newest applied migrations
\* and left an older one applied
C18_Witness ==
    /\ lastCall.op = "down" /\ lastCall.result = "True"
    /\ Len(lastCall.executed) = 2
    /\ FileLess(fileTs, lastCall.executed[2], lastCall.executed[1])
    /\ AppliedMigrationIds(ledger) # {}

\* C19: a verify_migrations call that returns has executed exactly the up
\* files whose file_id did not appear in the ledger, in ascending (ts,
\* file_id) order, and inserted for each an 'up' row tagged with
\* {missing: true} or the caller's metadata; the rows that existed are
\* unchanged, every up file now has an 'up' row, and a second call finds
\* nothing to execute.
C19_VerifyAppliesMissing ==
    (lastCall.op = "verify" /\ lastCall.result = "returned")
        => LET pre == lastCall.preLedger
               n == Len(pre)
               missing == {f \in FileIds : \A i \in 1..n : pre[i].file_id # f}
               Less(f, g) == FileLess(fileTs, f, g)
           IN  /\ FirstOf(lastCall.executed, missing, Cardinality(missing), Less)
               /\ Len(ledger) = n + Len(lastCall.executed)
               /\ SubSeq(ledger, 1, n) = pre
               /\ \E tag \in {"missing", "caller"} :
                      \A k \in 1..Len(lastCall.executed) :
                          /\ ledger[n + k].migration_type = "up"
                          /\ ledger[n + k].file_id = lastCall.executed[k]
                          /\ ledger[n + k].meta = tag
               /\ \A f \in FileIds : \E i \in 1..Len(ledger) :
                      ledger[i].migration_type = "up" /\ ledger[i].file_id = f
               /\ GetMissingMigrations(fileTs, ledger) = <<>>

\* verify_migrations applied two missing files on a ledger that already had
\* rows, one of them a 'down' row
C19_Witness ==
    /\ lastCall.op = "verify" /\ lastCall.result = "returned"
    /\ Len(lastCall.executed) = 2
    /\ \E i \in 1..Len(lastCall.preLedger) : lastCall.preLedger[i].migration_type = "down"

\* C20: when public.migration does not exist, migrate_up, migrate_down and
\* verify_migrations fail with NoSetupTableError and execute no file.
C20_NoSetupTableError ==
    (~tableExists /\ lastCall.op \in {"up", "down", "verify"})
        => (lastCall.result = "NoSetupTableError" /\ lastCall.executed = <<>>)

(***************************************************************************)
(* Claims about connections and child processes                            *)
(***************************************************************************)
\* the variable holds the value, or is unset when the descriptor has none
HoldsValue(env, name, value) ==
    IF Truthy(value) THEN name \in DOMAIN env /\ env[name] = value ELSE TRUE

\* the PG* variables of env carry the values of the descriptor
CarriesInfo(env, info, includeDatabase) ==
    /\ HoldsValue(env, "PGHOST", info.pg_host)
    /\ HoldsValue(env, "PGPORT", Str(info.pg_port))
    /\ HoldsValue(env, "PGUSER", info.pg_user)
    /\ HoldsValue(env, "PGPASSWORD", info.pg_password)
    /\ includeDatabase => HoldsValue(env, "PGDATABASE", info.database)
    /\ HoldsValue(env, "PGSSLMODE", info.ssl_mode)
    /\ HoldsValue(env, "PGSSLROOTCERT", info.ssl_ca)
    /\ HoldsValue(env, "PGSSLCERT", info.ssl_cert)
    /\ HoldsValue(env, "PGSSLKEY", info.ssl_key)

\* C23: on entering PGConnectionInfo.temp_env the PG* variables equal the
\* values the descriptor has; when the scope exits, the body having returned
\* or raised, the process environment is the environment at entry: variables
\* the scope added are gone and changed ones have their old value; with
\* nested scopes each exit restores the environment its own entry saw, and
\* once every scope is closed the environment is the one the process had.
C23_TempEnvScoped ==
    /\ ccall.op = "enter" =>
          CarriesInfo(environ, scopes[Len(scopes)].info, ccall.arg)
    /\ ccall.op = "exit" => environ = ccall.result.old
    /\ scopes = <<>> => environ \in Environs

\* an inner scope left by an exception of its body, after the body had added
\* a variable and deleted one, the outer scope being still open
C23_Witness ==
    /\ ccall.op = "exit" /\ ccall.arg = TRUE
    /\ Len(scopes) = 1
    /\ "TMP" \notin DOMAIN environ
    /\ "PGHOST" \in DOMAIN environ /\ environ["PGHOST"] = scopes[1].info.pg_host
    /\ ccall.result.info.pg_host # scopes[1].info.pg_host

\* C24: for every PGConnectionInfo x built from the recognized parameters,
\* PGConnectionInfo.from_uri(x.pg_url) equals x field by field, the database
\* included.
C24_UriRoundTrip ==
    ccall.op = "from_uri" => ccall.result = ccall.arg

\* lines that open or close a block
IsMarker(line) == IsError(line) \/ line = "notice"

\* the lines of the block opened at position e: e, then the lines with text
\* up to the next line with ERROR:, FATAL: or NOTICE:
BlockOf(msg, e) ==
    LET last == Min({j \in (e + 1)..(Len(msg) + 1) : j = Len(msg) + 1 \/ IsMarker(msg[j])}) - 1
        IsIn(j) == j = e \/ (e < j /\ j <= last /\ msg[j] # "blank")
    IN  SelectSeq([j \in 1..Len(msg) |-> j], IsIn)

\* C25: extract_pg_error returns one block per line containing ERROR: or
\* FATAL:, in input order; each block is that line followed by the text of
\* the subsequent lines up to, and not including, the next ERROR:, FATAL: or
\* NOTICE: line; lines before the first error line and lines between a
\* NOTICE: line and the next error line are in no block.
C25_ErrorBlocks ==
    ccall.op = "extract_pg_error" =>
        LET msg    == ccall.arg
            blocks == ccall.result
            IsErrorAt(j) == IsError(msg[j])
            starts == SelectSeq([j \in 1..Len(msg) |-> j], IsErrorAt)
        IN  /\ Len(blocks) = Len(starts)
            /\ \A k \in 1..Len(blocks) : blocks[k] = BlockOf(msg, starts[k])
            /\ \A j \in 1..Len(msg) :
                  (\E k \in 1..Len(blocks) : \E n \in 1..Len(blocks[k]) : blocks[k][n] = j)
                     => \E e \in 1..j : /\ IsError(msg[e])
                                        /\ \A m \in (e + 1)..j : ~IsMarker(msg[m])

\* text before the first error, an error with a continuation line, a NOTICE
\* that closes it, and a second error
C25_Witness ==
    /\ ccall.op = "extract_pg_error"
    /\ Len(ccall.arg) = MaxLines
    /\ ccall.arg[1] = "error" /\ ccall.arg[2] = "text" /\ ccall.arg[3] = "notice"
    /\ ccall.arg[Len(ccall.arg)] = "fatal"
    /\ Len(ccall.result) = 2 /\ ccall.result[1] = <<1, 2>>

\* C28: in compare_databases the pg_dump child process of each database
\* receives PGHOST, PGPORT, PGUSER and PGPASSWORD equal to the host, port,
\* user and password of that database's own descriptor.
C28_DumpUsesOwnDescriptor ==
    ccall.op = "compare_databases" =>
        \A k \in 1..2 :
            LET info  == ccall.arg[k]
                child == ccall.result[k]
            IN  /\ child["PGHOST"] = info.pg_host
                /\ child["PGPORT"] = Str(info.pg_port)
                /\ child["PGUSER"] = info.pg_user
                /\ child["PGPASSWORD"] = info.pg_password

====
